---- MODULE Spec2Model ----
(***************************************************************************)
(* A model of the iotdomain-go publisher library:                          *)
(*   - the publisher lifecycle (Start, Stop, heartbeatLoop and their       *)
(*     handshake over the unbuffered exitChannel), publisher/Publisher.go  *)
(*   - the output registry and the draining of the dirty sets by           *)
(*     PublishUpdates, outputs/RegisteredOutputs.go and                    *)
(*     publisher/PublishUpdates.go                                         *)
(*   - the handling of publisher identity messages (trust directory),      *)
(*     publisher/handlepublisher.go                                        *)
(*   - the discovery and poll handlers of the heartbeat,                   *)
(*     publisher/Publisher.go                                              *)
(*   - the handling of $configure commands, publisher/handleconfig.go      *)
(*   - the forms an output value is published in,                          *)
(*     publisher/PublishUpdates.go                                         *)
(*   - node types and aliases of the node registry,                        *)
(*     nodes/RegisteredNodes_test.go                                       *)
(*   - the lists of outputs the getters of the output registry return,     *)
(*     outputs/RegisteredOutputs.go                                        *)
(*   - attributes, status and typed configuration of the node registry,    *)
(*     nodes/RegisteredNodes_test.go                                       *)
(*   - output IDs of hardware IDs and instances that hold dots, and        *)
(*     PublishUpdates over a transport that fails                          *)
(* Each part has its own specification over its own variables; the         *)
(* variables of the other parts stay at their initial value.               *)
(***************************************************************************)
EXTENDS Integers, Sequences, FiniteSets, TLC

(***************************************************************************)
(* Bounds of the model                                                     *)
(***************************************************************************)
\* number of application tasks that call Start() and Stop()
NTasks == 2
\* number of heartbeatLoop goroutines that can exist at the same time
NHeartbeats == 3

\* the wall clock runs from 0 to MaxClock
MaxClock == 1
\* changes of one entity that are counted between two clearing GetUpdated* calls
MaxBurst == 2

\* the intervals of discovery and poll run from 1 to MaxInterval seconds
MaxInterval == 2
\* a countdown is followed down to MaxOverdue below zero and kept there: it is
\* <= 0 all the same
MaxOverdue == 1
MinCountdown == 0 - MaxOverdue
\* discovery handlers counted as running at the same time; more count as MaxHandlers
MaxHandlers == 2

Tasks == 1..NTasks
Heartbeats == 1..NHeartbeats

\* the classes of registered entities the heartbeat publishes
Kinds == {"node", "input", "output", "value"}

VARIABLES
    \* ---- publisher lifecycle (Publisher.go)
    hasMessenger,   \* publisher.messenger # nil
    isRunning,      \* publisher.isRunning
    stale,          \* the tasks whose unsynchronised read of isRunning may still see the other value
    pc,             \* per task: where the task is inside Start() or Stop()
    hb,             \* per heartbeat goroutine: where it is inside heartbeatLoop()
    dirty,          \* the classes of entities that hold an unpublished change
    subscriptions,  \* the address patterns subscribed to at the messenger
    published,      \* the publisher has published something
    \* ---- registries (RegisteredOutputs.go; nodes, inputs and values after the spec)
    now,            \* the wall clock, in units of the timestamp format
    regOutputs,     \* the RegisteredOutputs struct: addressMap, outputsByID, updatedOutputIDs
    regLocked,      \* regOutputs.updateMutex is held by a call that never returns
    regNodes,       \* the node registry: hwID -> value of the node's attribute
    updatedNodes,   \* the node registry's updated-set
    updatedInputs,  \* the input registry's updated-set
    updatedValues,  \* the output value registry's updated-set (output IDs)
    \* ---- what the callers of the registries saw
    burstOutputs,   \* per output ID: mutator calls since the last clearing GetUpdatedOutputs
    changedOutputs, \* output IDs whose registered state changed since the last clearing GetUpdatedOutputs
    burstNodes,     \* per node: changes since the last clearing GetUpdatedNodes
    lastCall,       \* the last GetUpdated* call made by the application, and what it returned
    \* ---- PublishUpdates (PublishUpdates.go), one heartbeat tick
    pubPhase,       \* i: at the i-th class of PublishOrder in the tick
    pubStep,        \* "get": before GetUpdated*(true); "publish": before Publish*
    pubList,        \* the list GetUpdated* returned for the class being published
    pubBurst,       \* burstNodes and the nodes as they were when the tick called GetUpdatedNodes
    pubLate,        \* nodes changed between GetUpdatedNodes and PublishRegisteredNodes of the tick
    tickLog,        \* the publications of the tick so far: <<class, id, content>>
    \* ---- discovery of publishers (handlepublisher.go)
    domainPublishers, \* the directory: identity address -> the identity message stored
    signingMethod,  \* "jws", or "" for none, as NewPublisher and SetSigningMethod left it
    selfID,         \* the publisherID given to NewPublisher
    crashed,        \* the process died of a nil pointer
    dssReceived,    \* a message was delivered on the identity address of the DSS
    lastOutcome,    \* what the last delivery was and what it did to the directory
    \* ---- discovery and poll of the heartbeat (Publisher.go)
    discoveryHandler,  \* publisher.discoveryHandler # nil
    pollHandler,       \* publisher.pollHandler # nil
    discoveryInterval, \* publisher.discoveryInterval
    pollInterval,      \* publisher.pollInterval
    discoverCountdown, \* publisher.discoverCountdown
    pollCountdown,     \* publisher.pollCountdown
    discovering,       \* discovery handlers that were launched and have not returned
    beatLog,           \* the rounds of the heartbeat loop so far (0, 1, more) and, per handler,
                       \* the rounds since its last call and between its last two calls
    \* ---- configuration commands (handleconfig.go)
    onNodeConfigHandler, \* publisher.onNodeConfigHandler: "none" for nil, or what the handler does
    lastConfig,        \* the last $configure delivery and what it did
    \* ---- the forms of an output value (PublishUpdates.go)
    nodeConfig,        \* per node and publish* configuration key: "true", "false" or "unset"
    valueLog,          \* the last publication of an updated output value: node, configuration, forms
    \* ---- node types and aliases (the node registry, after the spec and its test)
    nodeTypes,         \* hwID -> nodeType of the registered node
    aliasMap,          \* alias -> hwID of the node that has the alias
    lastNode,          \* the last createNode or setAlias call and what it did
    \* ---- a list of outputs in the hands of a caller (RegisteredOutputs.go getters)
    snapshot,          \* the list as returned, as the caller reads it now, and the
                       \* elements that are still the objects of the registry
    \* ---- the node registry with attributes, status and configuration (after the
    \* spec and its test)
    registered,        \* the nodes by hwID, the alias map and the updated set
    lastTyped          \* the last call on the registry, what it was given and returned

lifeVars == <<hasMessenger, isRunning, stale, pc, hb, dirty, subscriptions, published>>

regVars == <<now, regOutputs, regLocked, regNodes, updatedNodes, updatedInputs, updatedValues>>

seenVars == <<burstOutputs, changedOutputs, burstNodes, lastCall>>

pubVars == <<pubPhase, pubStep, pubList, pubBurst, pubLate, tickLog>>

trustVars == <<domainPublishers, signingMethod, selfID, crashed, dssReceived, lastOutcome>>

beatVars == <<discoveryHandler, pollHandler, discoveryInterval, pollInterval,
              discoverCountdown, pollCountdown, discovering, beatLog>>

\* the variables of the parts added to the first four
cfgVars == <<onNodeConfigHandler, lastConfig>>

formVars == <<nodeConfig, valueLog>>

nodeVars == <<nodeTypes, aliasMap, lastNode>>

outVars == <<snapshot>>

typedVars == <<registered, lastTyped>>

moreVars == <<beatVars, cfgVars, formVars, nodeVars, outVars, typedVars>>

notLife == <<regVars, seenVars, pubVars, trustVars, moreVars>>

notReg == <<lifeVars, trustVars, moreVars>>

notTrust == <<lifeVars, regVars, seenVars, pubVars, moreVars>>

notBeat == <<typedVars, regVars, seenVars, pubVars, trustVars, cfgVars, formVars, nodeVars, outVars>>

notCfg == <<typedVars, lifeVars, trustVars, beatVars, formVars, nodeVars, outVars>>

notForm == <<typedVars, lifeVars, trustVars, beatVars, cfgVars, nodeVars, outVars>>

notNode == <<typedVars, lifeVars, trustVars, beatVars, cfgVars, formVars, outVars>>

\* all but the output registry and the lists taken from it
notOut == <<lifeVars, trustVars, beatVars, cfgVars, formVars, nodeVars, typedVars>>

\* all but the node registry with attributes, status and configuration
notTyped == <<lifeVars, regVars, seenVars, pubVars, trustVars,
              beatVars, cfgVars, formVars, nodeVars, outVars>>

vars == <<lifeVars, regVars, seenVars, pubVars, trustVars, moreVars>>

(***************************************************************************)
(* Publisher lifecycle                                                     *)
(***************************************************************************)

\* NewPublisher: not running, no heartbeat, exitChannel unbuffered and empty
LifeStart ==
    /\ hasMessenger \in BOOLEAN
    /\ isRunning = FALSE
    /\ stale = {}
    /\ pc = [t \in Tasks |-> "idle"]
    /\ hb = [h \in Heartbeats |-> "none"]
    /\ dirty = {}
    /\ subscriptions = {}
    /\ published = FALSE

\* heartbeat goroutines that exist (launched and not yet returned)
Alive == {h \in Heartbeats : hb[h] \notin {"none", "done"}}

\* heartbeat goroutines that will still tick: before the handshake or inside the loop
InLoop == {h \in Heartbeats : hb[h] \in {"hello", "tick", "check"}}

\* the slot of the next goroutine: the lowest one no goroutine occupies
FreeSlots == {h \in Heartbeats : hb[h] \in {"none", "done"}}
NextSlot == CHOOSE h \in FreeSlots : \A g \in FreeSlots : h <= g

\* `if !publisher.isRunning` in Start() reads the flag without the mutex: the read
\* returns the current value, or the other value when the task has not synchronised
\* with the write that replaced it
RacyRead(t) == IF t \in stale THEN BOOLEAN ELSE {isRunning}

\* isRunning = v under the mutex by task t: t has seen every write; a task that has
\* not locked the mutex since may still read the value v replaced
StaleAfterWrite(t, v) ==
    IF v = isRunning THEN stale \ {t} ELSE Tasks \ {t}

\* Start() without the test of the messenger
StartCallUnchecked(t) ==
    /\ pc[t] = "idle"
    /\ \E r \in RacyRead(t) :
          pc' = [pc EXCEPT ![t] = IF r THEN "idle" ELSE "start_set"]
    /\ UNCHANGED <<subscriptions, published, hasMessenger, isRunning, stale, hb, dirty>>
    /\ UNCHANGED notLife

\* Start(), up to the test of isRunning
StartCall(t) ==
    /\ pc[t] = "idle"
    /\ \/ /\ ~hasMessenger
          /\ pc' = [pc EXCEPT ![t] = "start_error"]
       \/ /\ hasMessenger
          /\ \E r \in RacyRead(t) :
                pc' = [pc EXCEPT ![t] = IF r THEN "idle" ELSE "start_set"]
    /\ UNCHANGED <<subscriptions, published, hasMessenger, isRunning, stale, hb, dirty>>
    /\ UNCHANGED notLife

\* Start(): isRunning = true under the mutex, then `go publisher.heartbeatLoop()`
StartSet(t) ==
    /\ pc[t] = "start_set"
    /\ FreeSlots # {}
    /\ isRunning' = TRUE
    /\ stale' = StaleAfterWrite(t, TRUE)
    /\ hb' = [hb EXCEPT ![NextSlot] = "hello"]
    /\ pc' = [pc EXCEPT ![t] = "start_wait"]
    /\ UNCHANGED <<subscriptions, published, hasMessenger, dirty>>
    /\ UNCHANGED notLife

\* the rendezvous on the unbuffered exitChannel: heartbeat h sends
\* (`exitChannel <- false` before its loop, `exitChannel <- true` after it) and
\* task t receives (`<-publisher.exitChannel` in Start() or in Stop())
ExitChannel(t, h) ==
    /\ pc[t] \in {"start_wait", "stop_wait"}
    /\ hb[h] \in {"hello", "bye"}
    /\ pc' = [pc EXCEPT ![t] = IF pc[t] = "start_wait" THEN "start_connect" ELSE "stop_return"]
    /\ hb' = [hb EXCEPT ![h] = IF hb[h] = "hello" THEN "tick" ELSE "done"]
    /\ UNCHANGED <<subscriptions, published, hasMessenger, isRunning, stale, dirty>>
    /\ UNCHANGED notLife

\* MakeNodeAddress(domain, publisherID, "+", MessageTypeConfigure)
ConfigureAddress(dom, pubID) == dom \o "/" \o pubID \o "/+/$configure"

\* MakeInputSetAddress(configAddr, "+", "+")
InputSetAddress(dom, pubID) == dom \o "/" \o pubID \o "/+/$set/+/+"

\* MakePublisherIdentityAddress(domain, "+")
IdentityPattern(dom) == dom \o "/+/$identity"

\* the address pattern of the alias commands of the domain
AliasPattern(dom) == dom \o "/+/$alias/+"

\* Start() subscribes to these and to nothing else
StartSubscribesTo ==
    {ConfigureAddress("test", "publisher1"), InputSetAddress("test", "publisher1"),
     IdentityPattern("test")}

\* Start(): messenger.Connect and the three messenger.Subscribe calls
StartConnect(t) ==
    /\ pc[t] = "start_connect"
    /\ subscriptions' = subscriptions \cup StartSubscribesTo
    /\ pc' = [pc EXCEPT ![t] = "start_publish"]
    /\ UNCHANGED <<published, hasMessenger, isRunning, stale, hb, dirty>>
    /\ UNCHANGED notLife

\* the classes Start() publishes after the identity
StartPublishes == {"node", "input", "output"}

\* Start(): PublishIdentity(), PublishUpdatedNodes(), PublishUpdatedInputs(),
\* PublishUpdatedOutputs(), return
StartPublish(t) ==
    /\ pc[t] = "start_publish"
    /\ dirty' = dirty \ StartPublishes
    /\ published' = TRUE
    /\ pc' = [pc EXCEPT ![t] = "start_return"]
    /\ UNCHANGED <<subscriptions, hasMessenger, isRunning, stale, hb>>
    /\ UNCHANGED notLife

\* Start() returns: after its publications, or after the error of a missing messenger
StartReturn(t) ==
    /\ pc[t] \in {"start_return", "start_error"}
    /\ pc' = [pc EXCEPT ![t] = "idle"]
    /\ UNCHANGED <<subscriptions, published, hasMessenger, isRunning, stale, hb, dirty>>
    /\ UNCHANGED notLife

\* Stop(), up to the wait on exitChannel: test and clear isRunning under the mutex
StopCall(t) ==
    /\ pc[t] = "idle"
    /\ IF isRunning
         THEN /\ isRunning' = FALSE
              /\ stale' = StaleAfterWrite(t, FALSE)
              /\ pc' = [pc EXCEPT ![t] = "stop_wait"]
         ELSE /\ isRunning' = isRunning
              /\ stale' = stale \ {t}
              /\ pc' = pc
    /\ UNCHANGED <<subscriptions, published, hasMessenger, hb, dirty>>
    /\ UNCHANGED notLife

\* Stop() returns after the receive ("... bye bye")
StopReturn(t) ==
    /\ pc[t] = "stop_return"
    /\ pc' = [pc EXCEPT ![t] = "idle"]
    /\ UNCHANGED <<subscriptions, published, hasMessenger, isRunning, stale, hb, dirty>>
    /\ UNCHANGED notLife

\* the classes one tick of the heartbeat publishes
HeartbeatPublishes == {"node", "input", "output", "value"}

\* heartbeatLoop(): time.Sleep, then PublishUpdatedNodes(), PublishUpdatedInputs(),
\* PublishUpdatedOutputs(), PublishUpdatedOutputValues(), and the discovery and
\* poll countdowns
HeartbeatTick(h) ==
    /\ hb[h] = "tick"
    /\ dirty' = dirty \ HeartbeatPublishes
    /\ published' = (published \/ dirty # {})
    /\ hb' = [hb EXCEPT ![h] = "check"]
    /\ UNCHANGED <<subscriptions, hasMessenger, isRunning, stale, pc>>
    /\ UNCHANGED notLife

\* heartbeatLoop(): the read of isRunning under the mutex; the loop is left when
\* the flag is false
HeartbeatCheck(h) ==
    /\ hb[h] = "check"
    /\ hb' = [hb EXCEPT ![h] = IF isRunning THEN "tick" ELSE "bye"]
    /\ UNCHANGED <<subscriptions, published, hasMessenger, isRunning, stale, pc, dirty>>
    /\ UNCHANGED notLife

\* the application changes a registered entity of class k: the registry marks it updated
Mutate(k) ==
    /\ k \notin dirty
    /\ dirty' = dirty \cup {k}
    /\ UNCHANGED <<subscriptions, published, hasMessenger, isRunning, stale, pc, hb>>
    /\ UNCHANGED notLife

TaskStep(t) ==
    \/ StartSet(t)
    \/ StartConnect(t)
    \/ StartPublish(t)
    \/ StartReturn(t)
    \/ StopReturn(t)

HeartbeatStep(h) ==
    \/ HeartbeatTick(h)
    \/ HeartbeatCheck(h)

Next ==
    \/ \E t \in Tasks : StartCall(t)
    \/ \E t \in Tasks : StopCall(t)
    \/ \E t \in Tasks : TaskStep(t)
    \/ \E t \in Tasks, h \in Heartbeats : ExitChannel(t, h)
    \/ \E h \in Heartbeats : HeartbeatStep(h)
    \/ \E k \in Kinds : Mutate(k)

(***************************************************************************)
(* Discovery and poll handlers of the heartbeat                            *)
(***************************************************************************)

Intervals == 1..MaxInterval

\* no call of the handler yet
Never == 0 - 1

\* the rounds since the last call of a handler, one round later
Aged(age) == IF age = Never \/ age > MaxInterval THEN age ELSE age + 1

\* the log after a round in which the discovery handler was called or not (disc)
\* and the poll handler was called or not (poll)
Logged(log, disc, poll) ==
    [ticks |-> IF log.ticks < 2 THEN log.ticks + 1 ELSE 2,
     discAge |-> IF disc THEN 0 ELSE Aged(log.discAge),
     discGap |-> IF disc /\ log.discAge # Never THEN Aged(log.discAge) ELSE log.discGap,
     pollAge |-> IF poll THEN 0 ELSE Aged(log.pollAge),
     pollGap |-> IF poll /\ log.pollAge # Never THEN Aged(log.pollAge) ELSE log.pollGap]

\* NewPublisher, then SetDiscoveryInterval and SetPollInterval before Start():
\* each handler is set or left nil; discoverCountdown keeps its zero value and
\* pollCountdown is 1
BeatStart ==
    /\ discoveryHandler \in BOOLEAN
    /\ pollHandler \in BOOLEAN
    /\ discoveryInterval \in Intervals
    /\ pollInterval \in Intervals
    /\ discoverCountdown = 0
    /\ pollCountdown = 1
    /\ discovering = 0
    /\ beatLog = [ticks |-> 0, discAge |-> Never, discGap |-> Never,
                  pollAge |-> Never, pollGap |-> Never]

\* `countdown--`
Countdown(c) == IF c - 1 < MinCountdown THEN MinCountdown ELSE c - 1

\* the discovery handler due one round late
DiscoveryDueLate == discoverCountdown < 0 /\ discoveryHandler

\* the discovery handler is due in this round of the loop
DiscoveryDue == discoverCountdown <= 0 /\ discoveryHandler

\* the poll handler is due in this round of the loop
PollDue == pollCountdown <= 0 /\ pollHandler

\* one round of heartbeatLoop() from the sleep on: the four PublishUpdated* calls,
\* `go publisher.discoveryHandler(publisher)` when due, and either the poll
\* countdown or, when the poll is due, the call `publisher.pollHandler(publisher)`
\* made by the heartbeat goroutine itself
BeatTick(h) ==
    /\ hb[h] = "tick"
    /\ dirty' = dirty \ HeartbeatPublishes
    /\ published' = (published \/ dirty # {})
    /\ discovering' =
          IF DiscoveryDue /\ discovering < MaxHandlers THEN discovering + 1 ELSE discovering
    /\ discoverCountdown' =
          Countdown(IF DiscoveryDue THEN discoveryInterval ELSE discoverCountdown)
    /\ IF PollDue
          THEN /\ hb' = [hb EXCEPT ![h] = "poll"]
               /\ UNCHANGED pollCountdown
          ELSE /\ hb' = [hb EXCEPT ![h] = "check"]
               /\ pollCountdown' = Countdown(pollCountdown)
    /\ beatLog' = Logged(beatLog, DiscoveryDue, PollDue)
    /\ UNCHANGED <<subscriptions, hasMessenger, isRunning, stale, pc>>
    /\ UNCHANGED <<discoveryHandler, pollHandler, discoveryInterval, pollInterval>>
    /\ UNCHANGED notBeat

\* the poll handler returns to the heartbeat goroutine that called it:
\* pollCountdown = pollInterval, then pollCountdown--
PollReturn(h) ==
    /\ hb[h] = "poll"
    /\ pollCountdown' = Countdown(pollInterval)
    /\ hb' = [hb EXCEPT ![h] = "check"]
    /\ UNCHANGED <<subscriptions, published, hasMessenger, isRunning, stale, pc, dirty>>
    /\ UNCHANGED <<discoveryHandler, pollHandler, discoveryInterval, pollInterval,
                   discoverCountdown, discovering, beatLog>>
    /\ UNCHANGED notBeat

\* a discovery handler returns: its goroutine ends
DiscoveryReturn ==
    /\ discovering > 0
    /\ discovering' = discovering - 1
    /\ UNCHANGED lifeVars
    /\ UNCHANGED <<discoveryHandler, pollHandler, discoveryInterval, pollInterval,
                   discoverCountdown, pollCountdown, beatLog>>
    /\ UNCHANGED notBeat

\* the steps a heartbeat goroutine takes by itself
BeatStep(h) ==
    \/ BeatTick(h)
    \/ HeartbeatCheck(h)

(***************************************************************************)
(* Registries                                                              *)
(***************************************************************************)

domain == "test"
publisherID == "publisher1"
OutputTypes == {"switch"}
NodeHWIDs == {"node1", "node2"}
Instances == {"0", "1"}
Aliases == {"alias1"}
\* values of the one node attribute of the model; "" is the attribute not set
AttrValues == {"Bob", "NewName"}

\* a Go map: m[k] = v
MapPut(m, k, v) == [x \in DOMAIN m \cup {k} |-> IF x = k THEN v ELSE m[x]]

\* the lists a `for range` over the map m can build: its values, in any order
RangeLists(m) ==
    LET n == Cardinality(DOMAIN m)
        orders == {f \in [1..n -> DOMAIN m] : \A i, j \in 1..n : f[i] = f[j] => i = j}
    IN {[i \in 1..n |-> m[f[i]]] : f \in orders}

\* the lists that hold each element of the set S once, in any order
SetLists(S) == RangeLists([x \in S |-> x])

MakeOutputID(nodeHWID, outputType, instance) ==
    nodeHWID \o "." \o outputType \o "." \o instance

MakeOutputDiscoveryAddress(dom, pub, nodeID, outputType, instance) ==
    dom \o "/" \o pub \o "/" \o nodeID \o "/$output/" \o outputType \o "/" \o instance

\* time.Now().Format(types.TimeFormat) at clock t: the clock counts the units of the format
FormatTime(t) == t

NewOutput(dom, pub, nodeHWID, outputType, instance, t) ==
    [Address |-> MakeOutputDiscoveryAddress(dom, pub, nodeHWID, outputType, instance),
     Timestamp |-> FormatTime(t),
     NodeHWID |-> nodeHWID,
     Instance |-> instance,
     OutputID |-> MakeOutputID(nodeHWID, outputType, instance),
     OutputType |-> outputType,
     PublisherID |-> pub]

NewRegisteredOutputs ==
    [addressMap |-> <<>>, outputsByID |-> <<>>, updatedOutputIDs |-> <<>>]

\* updateOutput that forgets to record the output as updated
updateOutputUnmarked(reg, output, t) ==
    [addressMap |-> MapPut(reg.addressMap, output.Address, output.OutputID),
     outputsByID |-> MapPut(reg.outputsByID, output.OutputID,
                            [output EXCEPT !.Timestamp = FormatTime(t)]),
     updatedOutputIDs |-> reg.updatedOutputIDs]

\* updateOutput of a non-nil output at clock t; a nil updatedOutputIDs is the empty map
updateOutput(reg, output, t) ==
    [addressMap |-> MapPut(reg.addressMap, output.Address, output.OutputID),
     outputsByID |-> MapPut(reg.outputsByID, output.OutputID,
                            [output EXCEPT !.Timestamp = FormatTime(t)]),
     updatedOutputIDs |-> MapPut(reg.updatedOutputIDs, output.OutputID, output.OutputID)]

\* GetUpdatedOutputs: the lists it can return (IDs stand for the pointers) ...
UpdatedOutputLists(reg) ==
    {SelectSeq(l, LAMBDA id : id \in DOMAIN reg.outputsByID) :
        l \in RangeLists(reg.updatedOutputIDs)}

\* ... and the registry it leaves
GetUpdatedOutputs(reg, clearUpdates) ==
    IF clearUpdates THEN [reg EXCEPT !.updatedOutputIDs = <<>>] ELSE reg

GetOutputsByNodeHWID(reg, hwID) ==
    {id \in DOMAIN reg.outputsByID : reg.outputsByID[id].NodeHWID = hwID}

\* GetOutputByAddress(outputAddr): the output, as a set; empty for nil. The ID of
\* an address that is not in addressMap is "", which no output has
GetOutputByAddress(reg, outputAddr) ==
    LET outputID == IF outputAddr \in DOMAIN reg.addressMap
                      THEN reg.addressMap[outputAddr] ELSE ""
    IN {reg.outputsByID[id] : id \in DOMAIN reg.outputsByID \cap {outputID}}

\* GetOutputByNodeHWID(nodeHWID, outputType, instance): GetOutputByID of the ID
\* of the three, as a set; empty for nil
GetOutputByNodeHWID(reg, nodeHWID, outputType, instance) ==
    {reg.outputsByID[id] :
        id \in DOMAIN reg.outputsByID \cap {MakeOutputID(nodeHWID, outputType, instance)}}

\* what the getters of the output registry can show of its state
Registered(reg) == <<reg.addressMap, reg.outputsByID>>

ZeroBurst(S) == [x \in S |-> 0]

\* the entities that burst counts n times or more
AtLeast(burst, n) == {x \in DOMAIN burst : burst[x] >= n}
OutputIDs == {MakeOutputID(h, t, i) : h \in NodeHWIDs, t \in OutputTypes, i \in Instances}

RegStart ==
    /\ now = 0
    /\ regOutputs = NewRegisteredOutputs
    /\ regLocked = FALSE
    /\ regNodes = <<>>
    /\ updatedNodes = {}
    /\ updatedInputs = {}
    /\ updatedValues = {}

SeenStart ==
    /\ burstOutputs = ZeroBurst(OutputIDs)
    /\ changedOutputs = {}
    /\ burstNodes = ZeroBurst(NodeHWIDs)
    /\ lastCall = [kind |-> "none"]

\* no list was taken
NoSnapshot == [taken |-> <<>>, seen |-> <<>>, shared |-> {}]

SnapStart == snapshot = NoSnapshot

\* a getter appends the pointers of the outputs in ids to a new slice: the caller
\* holds the objects of the registry themselves
TakeSnapshot(reg, ids) ==
    [taken |-> [id \in ids |-> reg.outputsByID[id]],
     seen |-> [id \in ids |-> reg.outputsByID[id]],
     shared |-> ids]

\* the list in the hands of the caller after the registry went to reg, the IDs in
\* replaced being registered with another object than before: the elements that are
\* still objects of the registry show what the registry wrote into them
Resnap(held, reg, replaced) ==
    LET shared == held.shared \ replaced
    IN [taken |-> held.taken,
        seen |-> [id \in DOMAIN held.seen |->
                     IF id \in shared THEN reg.outputsByID[id] ELSE held.seen[id]],
        shared |-> shared]

\* the clock advances
Tick ==
    /\ now < MaxClock
    /\ now' = now + 1
    /\ UNCHANGED <<regOutputs, regLocked, regNodes, updatedNodes, updatedInputs, updatedValues>>
    /\ UNCHANGED <<seenVars, pubVars, notReg>>

\* a mutator of the output registry went from regOutputs to reg, acting on the IDs in ids
OutputsMutated(reg, ids) ==
    /\ regOutputs' = reg
    /\ burstOutputs' = [id \in OutputIDs |->
                          IF id \in ids THEN burstOutputs[id] + 1 ELSE burstOutputs[id]]
    /\ changedOutputs' = IF Registered(reg) = Registered(regOutputs)
                           THEN changedOutputs ELSE changedOutputs \cup ids

\* CreateOutput(hwID, outputType, instance)
CreateOutput(hwID, outputType, instance) ==
    /\ ~regLocked
    /\ burstOutputs[MakeOutputID(hwID, outputType, instance)] < MaxBurst
    /\ LET output == NewOutput(domain, publisherID, hwID, outputType, instance, now)
       IN /\ OutputsMutated(updateOutput(regOutputs, output, now), {output.OutputID})
          /\ snapshot' = Resnap(snapshot, regOutputs', {output.OutputID})
    /\ UNCHANGED <<now, regLocked, regNodes, updatedNodes, updatedInputs, updatedValues>>
    /\ UNCHANGED <<burstNodes, lastCall, pubVars, notOut>>

\* CreateOutput(hwID, outputType, instance) with any strings for hwID and instance,
\* outside the count of the changes between two GetUpdatedOutputs calls
CreateOutputOf(hwID, outputType, instance) ==
    /\ ~regLocked
    /\ LET output == NewOutput(domain, publisherID, hwID, outputType, instance, now)
       IN /\ regOutputs' = updateOutput(regOutputs, output, now)
          /\ snapshot' = Resnap(snapshot, regOutputs', {output.OutputID})
    /\ UNCHANGED <<now, regLocked, regNodes, updatedNodes, updatedInputs, updatedValues>>
    /\ UNCHANGED <<seenVars, pubVars, notOut>>

\* UpdateOutput(output), output being a registered output or a new one of NewOutput.
\* The caller passes a pointer: to the object the registry has under that ID (same)
\* or to another object, which replaces it
UpdateOutput(output) ==
    /\ ~regLocked
    /\ burstOutputs[output.OutputID] < MaxBurst
    /\ OutputsMutated(updateOutput(regOutputs, output, now), {output.OutputID})
    /\ \E same \in BOOLEAN :
          /\ same => /\ output.OutputID \in DOMAIN regOutputs.outputsByID
                      /\ output = regOutputs.outputsByID[output.OutputID]
          /\ snapshot' = Resnap(snapshot, regOutputs',
                                IF same THEN {} ELSE {output.OutputID})
    /\ UNCHANGED <<now, regLocked, regNodes, updatedNodes, updatedInputs, updatedValues>>
    /\ UNCHANGED <<burstNodes, lastCall, pubVars, notOut>>

\* SetNodeID(nodeHWID, alias). The list of GetOutputsByNodeHWID is walked in any
\* order; each round writes the address, locks the mutex, defers the unlock to the
\* return of SetNodeID and calls updateOutput: a second round blocks on the mutex
\* the first one still holds, after it has written the address of its output.
SetNodeID(nodeHWID, alias) ==
    /\ ~regLocked
    /\ LET outputList == GetOutputsByNodeHWID(regOutputs, nodeHWID)
           readdressed(reg, id) ==
               [reg EXCEPT !.outputsByID[id].Address =
                   MakeOutputDiscoveryAddress(domain, publisherID, alias,
                       reg.outputsByID[id].OutputType, reg.outputsByID[id].Instance)]
           round(reg, id) ==
               updateOutput(readdressed(reg, id), readdressed(reg, id).outputsByID[id], now)
       IN \/ /\ outputList = {}
             /\ UNCHANGED <<regOutputs, regLocked, burstOutputs, changedOutputs>>
          \/ /\ Cardinality(outputList) = 1
             /\ \A id \in outputList : burstOutputs[id] < MaxBurst
             /\ \E first \in outputList :
                   OutputsMutated(round(regOutputs, first), {first})
             /\ UNCHANGED regLocked
          \/ /\ Cardinality(outputList) > 1
             /\ \A id \in outputList : burstOutputs[id] < MaxBurst
             /\ \E first \in outputList : \E second \in outputList \ {first} :
                   OutputsMutated(readdressed(round(regOutputs, first), second), {first, second})
             /\ regLocked' = TRUE
    /\ snapshot' = Resnap(snapshot, regOutputs', {})
    /\ UNCHANGED <<now, regNodes, updatedNodes, updatedInputs, updatedValues>>
    /\ UNCHANGED <<burstNodes, lastCall, pubVars, notOut>>

\* the application calls GetAllOutputs() and keeps the list
CallGetAllOutputs ==
    /\ ~regLocked
    /\ snapshot' = TakeSnapshot(regOutputs, DOMAIN regOutputs.outputsByID)
    /\ UNCHANGED <<regVars, seenVars, pubVars, notOut>>

\* the application calls GetOutputsByNodeHWID(hwID) and keeps the list
CallGetOutputsByNodeHWID(hwID) ==
    /\ ~regLocked
    /\ snapshot' = TakeSnapshot(regOutputs, GetOutputsByNodeHWID(regOutputs, hwID))
    /\ UNCHANGED <<regVars, seenVars, pubVars, notOut>>

\* the application calls GetUpdatedOutputs(clearUpdates) and keeps the list
KeepGetUpdatedOutputs(clearUpdates) ==
    /\ ~regLocked
    /\ \E l \in UpdatedOutputLists(regOutputs) :
          snapshot' = TakeSnapshot(regOutputs, {l[k] : k \in DOMAIN l})
    /\ regOutputs' = GetUpdatedOutputs(regOutputs, clearUpdates)
    /\ burstOutputs' = IF clearUpdates THEN ZeroBurst(OutputIDs) ELSE burstOutputs
    /\ changedOutputs' = IF clearUpdates THEN {} ELSE changedOutputs
    /\ UNCHANGED <<now, regLocked, regNodes, updatedNodes, updatedInputs, updatedValues>>
    /\ UNCHANGED <<burstNodes, lastCall, pubVars, notOut>>

\* the application calls GetUpdatedOutputs(clearUpdates)
CallGetUpdatedOutputs(clearUpdates) ==
    /\ ~regLocked
    /\ \E l \in UpdatedOutputLists(regOutputs) :
          lastCall' = [kind |-> "outputs", result |-> l,
                       called |-> AtLeast(burstOutputs, 1),
                       repeated |-> AtLeast(burstOutputs, 2),
                       changed |-> changedOutputs]
    /\ regOutputs' = GetUpdatedOutputs(regOutputs, clearUpdates)
    /\ burstOutputs' = IF clearUpdates THEN ZeroBurst(OutputIDs) ELSE burstOutputs
    /\ changedOutputs' = IF clearUpdates THEN {} ELSE changedOutputs
    /\ UNCHANGED <<now, regLocked, regNodes, updatedNodes, updatedInputs, updatedValues>>
    /\ UNCHANGED <<burstNodes, pubVars, notReg>>

\* the four statements of PublishUpdates with nodes and inputs exchanged
PublishOrderSwapped == <<"input", "node", "output", "value">>

\* the classes in the order of the statements of PublishUpdates
PublishOrder == <<"node", "input", "output", "value">>

\* GetUpdated* calls that leave the updates in place
ClearNothing == FALSE

\* the clearUpdates argument PublishUpdates passes to the GetUpdated* calls
ClearUpdates == TRUE

\* PublishUpdates holds the list of GetUpdatedNodes and has not published it yet
NodesInHand == pubStep = "publish" /\ PublishOrder[pubPhase] = "node"

\* a mutator of the node registry changed node hwID
NodeChanged(hwID) ==
    /\ updatedNodes' = updatedNodes \cup {hwID}
    /\ burstNodes' = [burstNodes EXCEPT ![hwID] = @ + 1]
    /\ pubLate' = IF NodesInHand THEN pubLate \cup {hwID} ELSE pubLate

\* createNode(hwID, nodeType): the node that exists is returned unchanged
CreateNode(hwID) ==
    /\ IF hwID \in DOMAIN regNodes
         THEN UNCHANGED <<regNodes, updatedNodes, burstNodes, pubLate>>
         ELSE /\ burstNodes[hwID] < MaxBurst
              /\ regNodes' = MapPut(regNodes, hwID, "")
              /\ NodeChanged(hwID)
    /\ UNCHANGED <<now, regOutputs, regLocked, updatedInputs, updatedValues>>
    /\ UNCHANGED <<burstOutputs, changedOutputs, lastCall, notReg>>
    /\ UNCHANGED <<pubPhase, pubStep, pubList, pubBurst, tickLog>>

\* updateNodeAttr(hwID, attrMap): no-op on an unknown node; updated iff a value changed
UpdateNodeAttr(hwID, value) ==
    /\ IF hwID \in DOMAIN regNodes /\ regNodes[hwID] # value
         THEN /\ burstNodes[hwID] < MaxBurst
              /\ regNodes' = [regNodes EXCEPT ![hwID] = value]
              /\ NodeChanged(hwID)
         ELSE UNCHANGED <<regNodes, updatedNodes, burstNodes, pubLate>>
    /\ UNCHANGED <<now, regOutputs, regLocked, updatedInputs, updatedValues>>
    /\ UNCHANGED <<burstOutputs, changedOutputs, lastCall, notReg>>
    /\ UNCHANGED <<pubPhase, pubStep, pubList, pubBurst, tickLog>>

\* the application calls getUpdatedNodes(clear)
CallGetUpdatedNodes(clear) ==
    /\ \E l \in SetLists(updatedNodes) :
          lastCall' = [kind |-> "nodes", result |-> l,
                       called |-> AtLeast(burstNodes, 1),
                       repeated |-> AtLeast(burstNodes, 2),
                       changed |-> AtLeast(burstNodes, 1)]
    /\ updatedNodes' = IF clear THEN {} ELSE updatedNodes
    /\ burstNodes' = IF clear THEN ZeroBurst(NodeHWIDs) ELSE burstNodes
    /\ UNCHANGED <<now, regOutputs, regLocked, regNodes, updatedInputs, updatedValues>>
    /\ UNCHANGED <<burstOutputs, changedOutputs, pubVars, notReg>>

(***************************************************************************)
(* PublishUpdates                                                          *)
(***************************************************************************)

InputIDs == {"node1.switch.0"}

PubStart ==
    /\ pubPhase = 1
    /\ pubStep = "get"
    /\ pubList = <<>>
    /\ pubBurst = [burst |-> ZeroBurst(NodeHWIDs), nodes |-> <<>>]
    /\ pubLate = {}
    /\ tickLog = <<>>

\* UpdateInput: an input of the (spec-level) input registry changed
UpdateInput(inputID) ==
    /\ inputID \notin updatedInputs
    /\ updatedInputs' = updatedInputs \cup {inputID}
    /\ UNCHANGED <<now, regOutputs, regLocked, regNodes, updatedNodes, updatedValues>>
    /\ UNCHANGED <<seenVars, pubVars, notReg>>

\* UpdateOutputValue: the value of an output changed in the (spec-level) value registry
UpdateOutputValue(outputID) ==
    /\ outputID \notin updatedValues
    /\ updatedValues' = updatedValues \cup {outputID}
    /\ UNCHANGED <<now, regOutputs, regLocked, regNodes, updatedNodes, updatedInputs>>
    /\ UNCHANGED <<seenVars, pubVars, notReg>>

\* one GetUpdated* call of PublishUpdates, the first one opening the tick
PubGet ==
    /\ pubStep = "get"
    /\ ~regLocked
    /\ LET class == PublishOrder[pubPhase] IN
       /\ CASE class = "node" ->
                 /\ pubList' \in SetLists(updatedNodes)
                 /\ updatedNodes' = IF ClearUpdates THEN {} ELSE updatedNodes
                 /\ pubBurst' = [burst |-> burstNodes, nodes |-> regNodes]
                 /\ burstNodes' = ZeroBurst(NodeHWIDs)
                 /\ UNCHANGED <<regOutputs, updatedInputs, updatedValues,
                                burstOutputs, changedOutputs>>
            [] class = "input" ->
                 /\ pubList' \in SetLists(updatedInputs)
                 /\ updatedInputs' = IF ClearUpdates THEN {} ELSE updatedInputs
                 /\ UNCHANGED <<regOutputs, updatedNodes, updatedValues, pubBurst,
                                burstNodes, burstOutputs, changedOutputs>>
            [] class = "output" ->
                 /\ pubList' \in UpdatedOutputLists(regOutputs)
                 /\ regOutputs' = GetUpdatedOutputs(regOutputs, ClearUpdates)
                 /\ burstOutputs' = ZeroBurst(OutputIDs)
                 /\ changedOutputs' = {}
                 /\ UNCHANGED <<updatedNodes, updatedInputs, updatedValues, pubBurst,
                                burstNodes>>
            [] class = "value" ->
                 /\ pubList' \in SetLists(updatedValues)
                 /\ updatedValues' = IF ClearUpdates THEN {} ELSE updatedValues
                 /\ UNCHANGED <<regOutputs, updatedNodes, updatedInputs, pubBurst,
                                burstNodes, burstOutputs, changedOutputs>>
       /\ tickLog' = IF pubPhase = 1 THEN <<>> ELSE tickLog
       /\ pubLate' = IF class = "node" THEN {} ELSE pubLate
    /\ pubStep' = "publish"
    /\ UNCHANGED <<pubPhase, now, regLocked, regNodes, lastCall, notReg>>

\* what the Publish* call after the GetUpdated* call sends of the list it was given
Published(class, list) ==
    CASE class = "node" ->
            [i \in DOMAIN list |-> <<class, list[i], regNodes[list[i]]>>]
      [] class = "input" ->
            [i \in DOMAIN list |-> <<class, list[i], "">>]
      [] class = "output" ->
            [i \in DOMAIN list |-> <<class, list[i], regOutputs.outputsByID[list[i]].Address>>]
      [] class = "value" ->
            LET known(id) == /\ id \in DOMAIN regOutputs.outputsByID
                             /\ regOutputs.outputsByID[id].NodeHWID \in DOMAIN regNodes
                sent == SelectSeq(list, known)
            IN [i \in DOMAIN sent |-> <<class, sent[i], "">>]

PubPublish ==
    /\ pubStep = "publish"
    /\ tickLog' = tickLog \o Published(PublishOrder[pubPhase], pubList)
    /\ pubList' = <<>>
    /\ pubPhase' = IF pubPhase = Len(PublishOrder) THEN 1 ELSE pubPhase + 1
    /\ pubStep' = "get"
    /\ UNCHANGED <<pubBurst, pubLate, regVars, seenVars, notReg>>

\* the publications of the list that are left when the transport fails for those
\* whose index is not in kept
Kept(list, kept) ==
    LET upTo[i \in 0..Len(list)] ==
            IF i = 0 THEN <<>>
            ELSE IF i \in kept THEN Append(upTo[i - 1], list[i]) ELSE upTo[i - 1]
    IN upTo[Len(list)]

\* the dirty sets of the four registries
Dirty == <<updatedNodes, updatedInputs, regOutputs.updatedOutputIDs, updatedValues>>

\* a Publish* call that marks the entities the transport failed for as updated again
PubPublishRetrying ==
    /\ pubStep = "publish"
    /\ PublishOrder[pubPhase] = "node"
    /\ pubList # <<>>
    /\ tickLog' = tickLog
    /\ updatedNodes' = updatedNodes \cup {pubList[i] : i \in DOMAIN pubList}
    /\ pubList' = <<>>
    /\ pubPhase' = IF pubPhase = Len(PublishOrder) THEN 1 ELSE pubPhase + 1
    /\ pubStep' = "get"
    /\ UNCHANGED <<now, regOutputs, regLocked, regNodes, updatedInputs, updatedValues>>
    /\ UNCHANGED <<pubBurst, pubLate, seenVars, notReg>>

\* a Publish* call during which the transport fails for one or more entities of
\* the list: the others are published, nothing is returned to PublishUpdates,
\* which goes on with its next statement
PubPublishFailing ==
    /\ pubStep = "publish"
    /\ LET all == Published(PublishOrder[pubPhase], pubList)
       IN \E kept \in SUBSET DOMAIN all :
             /\ kept # DOMAIN all
             /\ tickLog' = tickLog \o Kept(all, kept)
    /\ pubList' = <<>>
    /\ pubPhase' = IF pubPhase = Len(PublishOrder) THEN 1 ELSE pubPhase + 1
    /\ pubStep' = "get"
    /\ UNCHANGED <<pubBurst, pubLate, regVars, seenVars, notReg>>

(***************************************************************************)
(* Discovery of publishers                                                 *)
(***************************************************************************)

DSSPublisherID == "$dss"
PublisherIDs == {publisherID, "publisher2", DSSPublisherID}
Keys == {"k1", "k2"}
SigningMethodNone == ""
SigningMethodJWS == "jws"

IdentityAddress(dom, pubID) == dom \o "/" \o pubID \o "/$identity"
dssAddress == IdentityAddress(domain, DSSPublisherID)
Addresses == {IdentityAddress(domain, id) : id \in PublisherIDs}

\* base64.URLEncoding.EncodeToString(json.Marshal(identity))
EncodeIdentity(identity) == "b64{publicKeySigning:" \o identity.PublicKeySigning \o "}"

Identities == {[PublicKeySigning |-> k] : k \in Keys}
NoSignature == [by |-> "none", over |-> ""]

\* the ECDSA signature of text made with the private key of publicKey
EcdsaSign(text, publicKey) == [by |-> publicKey, over |-> text]

VerifyEcdsaSignature(text, signature, publicKey) ==
    signature.by = publicKey /\ signature.over = text

\* SetupPublisherIdentity: a new identity, signed by the publisher itself
SetupPublisherIdentity(dom, pubID) ==
    [Address |-> IdentityAddress(dom, pubID),
     Identity |-> [PublicKeySigning |-> "k1"],
     IdentitySignature |-> EcdsaSign(EncodeIdentity([PublicKeySigning |-> "k1"]), "k1")]

\* the identity messages that can be published: not signed, or signed with some key
IdentityMessages ==
    UNION {[Address : Addresses, Identity : {i},
            IdentitySignature : {NoSignature} \cup
                                {EcdsaSign(EncodeIdentity(i), k) : k \in Keys}] :
           i \in Identities}

\* what arrives on the bus: a JWS envelope signed with the key signedBy ("none" for a
\* text that is no JWS), whose payload is the JSON of msg or, if ~json, no JSON
Messages ==
    [signedBy : Keys \cup {"none"}, json : {TRUE}, msg : IdentityMessages] \cup
    [signedBy : Keys \cup {"none"}, json : {FALSE},
     msg : {SetupPublisherIdentity(domain, "publisher2")}]

\* UpdatePublisher that keeps the new identity message and that of the publisher only
UpdatePublisherAlone(publishers, pub) ==
    LET selfAddress == domain \o "/" \o selfID \o "/$identity"
    IN [a \in {pub.Address} \cup (DOMAIN publishers \cap {selfAddress}) |->
           IF a = pub.Address THEN pub ELSE publishers[a]]

\* PublisherList.UpdatePublisher of a non-nil identity message
UpdatePublisher(publishers, pub) == MapPut(publishers, pub.Address, pub)

\* PublisherList.GetPublisherSigningKey; "nil" for an unknown publisher
GetPublisherSigningKey(publishers, address) ==
    IF address \in DOMAIN publishers
      THEN publishers[address].Identity.PublicKeySigning
      ELSE "nil"

NewPublisher(dom, pubID) ==
    UpdatePublisher(<<>>, SetupPublisherIdentity(dom, pubID))

TrustStart ==
    /\ signingMethod \in {SigningMethodJWS, SigningMethodNone}
    /\ selfID \in {publisherID, DSSPublisherID}
    /\ domainPublishers = NewPublisher(domain, selfID)
    /\ crashed = FALSE
    /\ dssReceived = FALSE
    /\ lastOutcome = [on |-> "none"]

\* handleDSSDiscovery hands its nil local, not its argument, to UpdatePublisher, which
\* either returns without a change or panics on the nil pointer
handleDSSDiscovery(publishers, dssIdentityMsg) ==
    {[publishers |-> publishers, crashed |-> c] : c \in BOOLEAN}

\* handlePublisherDiscovery without the check of the DSS signature
handlePublisherDiscoveryUnverified(publishers, address, message) ==
    LET same == {[publishers |-> publishers, crashed |-> FALSE]}
    IN IF message.signedBy = "none" /\ signingMethod = SigningMethodJWS THEN same
       ELSE IF ~message.json THEN same
       ELSE IF address = dssAddress THEN handleDSSDiscovery(publishers, message.msg)
       ELSE {[publishers |-> UpdatePublisher(publishers, message.msg), crashed |-> FALSE]}

\* handlePublisherDiscovery that takes a text that is no JWS for the payload under
\* either signing method
handlePublisherDiscoveryUnsigned(publishers, address, message) ==
    LET same == {[publishers |-> publishers, crashed |-> FALSE]}
        dssSigningKey == GetPublisherSigningKey(publishers, dssAddress)
        stored == {[publishers |-> UpdatePublisher(publishers, message.msg),
                    crashed |-> FALSE]}
    IN IF ~message.json THEN same
       ELSE IF address = dssAddress THEN handleDSSDiscovery(publishers, message.msg)
       ELSE IF dssSigningKey = "nil" THEN stored
       ELSE IF ~VerifyEcdsaSignature(EncodeIdentity(message.msg.Identity),
                                     message.msg.IdentitySignature, dssSigningKey)
              THEN same
              ELSE stored

\* the outcomes of handlePublisherDiscovery(address, message)
handlePublisherDiscovery(publishers, address, message) ==
    LET same == {[publishers |-> publishers, crashed |-> FALSE]}
        pubIdentityMsg == message.msg
        dssSigningKey == GetPublisherSigningKey(publishers, dssAddress)
        stored == {[publishers |-> UpdatePublisher(publishers, pubIdentityMsg),
                    crashed |-> FALSE]}
    IN IF message.signedBy = "none" /\ signingMethod = SigningMethodJWS THEN same
       ELSE IF ~message.json THEN same
       ELSE IF address = dssAddress THEN handleDSSDiscovery(publishers, pubIdentityMsg)
       ELSE IF dssSigningKey = "nil" THEN stored
       ELSE IF ~VerifyEcdsaSignature(EncodeIdentity(pubIdentityMsg.Identity),
                                     pubIdentityMsg.IdentitySignature, dssSigningKey)
              THEN same
              ELSE stored

\* what an observer of the bus and of the directory notes of one delivery
Observed(address, message, after) ==
    LET dssKey == GetPublisherSigningKey(domainPublishers, dssAddress)
        selfAddress == IdentityAddress(domain, selfID)
    IN [on |-> address,
        signed |-> message.signedBy # "none",
        decoded |-> message.json /\ ~(message.signedBy = "none" /\ signingMethod = SigningMethodJWS),
        forged |-> message.signedBy \notin {"none", message.msg.Identity.PublicKeySigning},
        dssKnown |-> dssKey # "nil",
        dssSigned |-> /\ message.msg.IdentitySignature.by = dssKey
                      /\ message.msg.IdentitySignature.over =
                             EncodeIdentity(message.msg.Identity),
        applied |-> after = UpdatePublisher(domainPublishers, message.msg),
        changed |-> after # domainPublishers,
        selfChanged |-> after[selfAddress] # domainPublishers[selfAddress]]

\* the bus delivers message on address to the subscription of handlePublisherDiscovery
HandlePublisherDiscovery(address, message) ==
    /\ ~crashed
    /\ \E out \in handlePublisherDiscovery(domainPublishers, address, message) :
          /\ domainPublishers' = out.publishers
          /\ crashed' = out.crashed
          /\ lastOutcome' = Observed(address, message, out.publishers)
    /\ dssReceived' = (dssReceived \/ (address = dssAddress /\ lastOutcome'.decoded))
    /\ UNCHANGED <<signingMethod, selfID, notTrust>>

(***************************************************************************)
(* Configuration commands                                                  *)
(***************************************************************************)

\* MakeNodeAddress(domain, publisherID, nodeID, MessageTypeConfigure)
NodeConfigureAddress(hwID) ==
    domain \o "/" \o publisherID \o "/" \o hwID \o "/$configure"

\* what the handler set with SetNodeConfigHandler does with the attribute map it is
\* given; "none" is no handler. A NodeAttrMap is modelled by the value it gives to
\* the one attribute of the node, and the nil map by "nil"
ConfigHandlers == {"none", "echo", "deny", "rename"}

onNodeConfigHandlerResult(handler, params) ==
    CASE handler = "echo" -> params
      [] handler = "deny" -> "nil"
      [] handler = "rename" -> "NewName"

\* the $configure messages that can arrive: a JWS envelope signed with the key
\* signedBy ("none" for a text that is no JWS), naming its sender
ConfigureMessages ==
    [signedBy : Keys \cup {"none"},
     Sender : {IdentityAddress(domain, publisherID), IdentityAddress(domain, "publisher2")},
     Attr : AttrValues]

\* messenger.VerifySender: the message is signed if it is a JWS; the verification
\* fails if the directory has no key for the sender or the key did not sign it
VerifySender(message, publishers) ==
    LET key == GetPublisherSigningKey(publishers, message.Sender)
    IN [isSigned |-> message.signedBy # "none",
        err |-> (key = "nil" \/ message.signedBy # key)]

\* RegisteredNodes.GetNodeByAddress: the hwID of the registered node the address
\* names, "nil" if there is none
GetNodeByAddress(nodes, address) ==
    IF \E n \in DOMAIN nodes : NodeConfigureAddress(n) = address
      THEN CHOOSE n \in DOMAIN nodes : NodeConfigureAddress(n) = address
      ELSE "nil"

\* handleNodeConfigCommand without the verification of the sender
handleNodeConfigCommandUnverified(nodes, publishers, handler, address, message) ==
    LET node == GetNodeByAddress(nodes, address)
    IN IF node = "nil" THEN [node |-> node, invoked |-> FALSE, params |-> "nil"]
       ELSE [node |-> node, invoked |-> handler # "none",
             params |-> IF handler # "none"
                          THEN onNodeConfigHandlerResult(handler, message.Attr)
                          ELSE message.Attr]

\* handleNodeConfigCommand that applies the map of the message whatever the handler returns
handleNodeConfigCommandUnfiltered(nodes, publishers, handler, address, message) ==
    LET v == VerifySender(message, publishers)
        node == GetNodeByAddress(nodes, address)
    IN IF ~v.isSigned \/ v.err \/ node = "nil"
         THEN [node |-> node, invoked |-> FALSE, params |-> "nil"]
         ELSE [node |-> node, invoked |-> handler # "none", params |-> message.Attr]

\* handleNodeConfigCommand that calls the handler before it looks for the node
handleNodeConfigCommandEager(nodes, publishers, handler, address, message) ==
    LET v == VerifySender(message, publishers)
        node == GetNodeByAddress(nodes, address)
    IN IF ~v.isSigned \/ v.err THEN [node |-> node, invoked |-> FALSE, params |-> "nil"]
       ELSE [node |-> node, invoked |-> handler # "none",
             params |-> IF node = "nil" THEN "nil"
                        ELSE IF handler # "none"
                          THEN onNodeConfigHandlerResult(handler, message.Attr)
                          ELSE message.Attr]

\* handleNodeConfigCommand up to the call of SetNodeConfigValues: the node the
\* address names, whether the handler was invoked, and the map to apply ("nil": none)
handleNodeConfigCommand(nodes, publishers, handler, address, message) ==
    LET v == VerifySender(message, publishers)
        node == GetNodeByAddress(nodes, address)
        dropped == [node |-> node, invoked |-> FALSE, params |-> "nil"]
    IN IF ~v.isSigned THEN dropped
       ELSE IF v.err THEN dropped
       ELSE IF node = "nil" THEN dropped
       ELSE [node |-> node, invoked |-> handler # "none",
             params |-> IF handler # "none"
                          THEN onNodeConfigHandlerResult(handler, message.Attr)
                          ELSE message.Attr]

\* NewPublisher, then SetNodeConfigHandler or not
ConfigStart ==
    /\ onNodeConfigHandler \in ConfigHandlers
    /\ lastConfig = [on |-> "none"]

\* a $configure message is delivered: handleNodeConfigCommand, and
\* SetNodeConfigValues of the map it ends with (the node is marked updated iff
\* the value of its attribute changes)
HandleNodeConfigCommand(address, message) ==
    LET r == handleNodeConfigCommand(regNodes, domainPublishers, onNodeConfigHandler,
                                     address, message)
    IN /\ IF r.params # "nil" /\ regNodes[r.node] # r.params
            THEN /\ burstNodes[r.node] < MaxBurst
                 /\ regNodes' = [regNodes EXCEPT ![r.node] = r.params]
                 /\ NodeChanged(r.node)
            ELSE UNCHANGED <<regNodes, updatedNodes, burstNodes, pubLate>>
       /\ lastConfig' = [on |-> address, message |-> message, node |-> r.node,
                         invoked |-> r.invoked,
                         changed |-> (regNodes' # regNodes \/ updatedNodes' # updatedNodes)]
       /\ UNCHANGED <<now, regOutputs, regLocked, updatedInputs, updatedValues>>
       /\ UNCHANGED <<burstOutputs, changedOutputs, lastCall>>
       /\ UNCHANGED <<pubPhase, pubStep, pubList, pubBurst, tickLog>>
       /\ UNCHANGED <<onNodeConfigHandler, notCfg>>

(***************************************************************************)
(* The forms an output value is published in                               *)
(***************************************************************************)

\* raw, latest, history and event: the publications of one updated output value,
\* each under the node configuration key publishRaw, publishLatest,
\* publishHistory, publishEvent
Forms == {"raw", "latest", "history", "event"}

\* the default PublishUpdatedOutputValues gives to GetNodeConfigBool for the key
FormDefault(form) == form # "event"

\* node.Address: the discovery address of the node
NodeAddress(hwID) == domain \o "/" \o publisherID \o "/" \o hwID \o "/$node"

ConfigValues == {"unset", "true", "false"}

\* RegisteredNodes.GetNodeConfigBool(nodeID, attrName, defaultValue): the parsed
\* value; the default on an unknown node ID or a key without a value
GetNodeConfigBool(nodes, config, nodeID, attrName, defaultValue) ==
    IF nodeID \in DOMAIN nodes /\ config[nodeID][attrName] # "unset"
      THEN config[nodeID][attrName] = "true"
      ELSE defaultValue

\* the loop body of PublishUpdatedOutputValues for an output of node hwID that
\* has a latest value: the forms published
PublishedForms(nodes, config, hwID) ==
    IF hwID \notin DOMAIN nodes THEN {}
    ELSE {f \in Forms :
            GetNodeConfigBool(nodes, config, NodeAddress(hwID), f, FormDefault(f))}

FormStart ==
    /\ nodeConfig = [n \in NodeHWIDs |-> [f \in Forms |-> "unset"]]
    /\ valueLog = [on |-> "none"]

\* updateNodeConfigValues(hwID, {key: value}) for a publish* key: no-op on an
\* unknown node; the node is marked updated iff the value changes
UpdateNodeConfigValues(hwID, form, value) ==
    /\ IF hwID \in DOMAIN regNodes /\ nodeConfig[hwID][form] # value
         THEN /\ burstNodes[hwID] < MaxBurst
              /\ nodeConfig' = [nodeConfig EXCEPT ![hwID][form] = value]
              /\ NodeChanged(hwID)
         ELSE UNCHANGED <<nodeConfig, updatedNodes, burstNodes, pubLate>>
    /\ UNCHANGED <<now, regOutputs, regLocked, regNodes, updatedInputs, updatedValues>>
    /\ UNCHANGED <<burstOutputs, changedOutputs, lastCall>>
    /\ UNCHANGED <<pubPhase, pubStep, pubList, pubBurst, tickLog>>
    /\ UNCHANGED <<valueLog, notForm>>

\* PublishUpdatedOutputValues of one updated output of node hwID
PublishUpdatedOutputValues(hwID) ==
    /\ valueLog' = [on |-> hwID, registered |-> hwID \in DOMAIN regNodes,
                    config |-> nodeConfig[hwID],
                    forms |-> PublishedForms(regNodes, nodeConfig, hwID)]
    /\ UNCHANGED <<nodeConfig, regVars, seenVars, pubVars, notForm>>

(***************************************************************************)
(* Node types and aliases                                                  *)
(***************************************************************************)

NodeTypes == {"unknown", "gateway"}

\* what can be given to setAlias as alias: a free name, the hwID of a node, or ""
AliasIDs == Aliases \cup NodeHWIDs \cup {""}

\* m without the keys that map to v
MapWithout(m, v) == [k \in {j \in DOMAIN m : m[j] # v} |-> m[k]]

\* createNode that gives the node that exists the new nodeType
createNodeRetyped(types, hwID, nodeType) == MapPut(types, hwID, nodeType)

\* createNode(hwID, nodeType) on the types of the registered nodes: the node that
\* exists stays as it is
createNode(types, hwID, nodeType) ==
    IF hwID \in DOMAIN types THEN types ELSE MapPut(types, hwID, nodeType)

\* getNodeByID that looks at the hwIDs only
GetNodeByHWID(nodes, aliases, id) == IF id \in DOMAIN nodes THEN id ELSE "nil"

\* getNodeByID(idOrAlias): the hwID map, then the alias map; "nil" if in neither
GetNodeByID(nodes, aliases, id) ==
    IF id \in DOMAIN nodes THEN id
    ELSE IF id \in DOMAIN aliases THEN aliases[id]
    ELSE "nil"

\* setAlias that does not look for a node with the alias as hwID
setAliasUnguarded(nodes, aliases, hwID, alias) ==
    IF hwID \notin DOMAIN nodes THEN aliases
    ELSE IF alias = "" THEN MapWithout(aliases, hwID)
    ELSE MapPut(MapWithout(aliases, hwID), alias, hwID)

\* setAlias(hwID, alias) on the alias map: ignored from a hwID that is no node;
\* an empty alias clears; an alias that is the hwID of a node is ignored
setAlias(nodes, aliases, hwID, alias) ==
    IF hwID \notin DOMAIN nodes THEN aliases
    ELSE IF alias = "" THEN MapWithout(aliases, hwID)
    ELSE IF alias \in DOMAIN nodes THEN aliases
    ELSE MapPut(MapWithout(aliases, hwID), alias, hwID)

\* the alias node hwID has, "" if none
AliasOf(aliases, hwID) ==
    IF \E a \in DOMAIN aliases : aliases[a] = hwID
      THEN CHOOSE a \in DOMAIN aliases : aliases[a] = hwID
      ELSE ""

NodeStart ==
    /\ nodeTypes = <<>>
    /\ aliasMap = <<>>
    /\ lastNode = [op |-> "none"]

\* the application calls createNode(hwID, nodeType): a new node is registered
\* and marked updated, a node that exists is returned
CreateNodeOfType(hwID, nodeType) ==
    /\ nodeTypes' = createNode(nodeTypes, hwID, nodeType)
    /\ IF hwID \in DOMAIN regNodes
         THEN UNCHANGED <<regNodes, updatedNodes, burstNodes, pubLate>>
         ELSE /\ burstNodes[hwID] < MaxBurst
              /\ regNodes' = MapPut(regNodes, hwID, "")
              /\ NodeChanged(hwID)
    /\ lastNode' = [op |-> "createNode", hwID |-> hwID, arg |-> nodeType,
                    existed |-> hwID \in DOMAIN regNodes,
                    prev |-> IF hwID \in DOMAIN nodeTypes THEN nodeTypes[hwID] ELSE "",
                    count |-> Cardinality(DOMAIN regNodes),
                    returned |-> GetNodeByID(regNodes', aliasMap, hwID),
                    changed |-> (nodeTypes' # nodeTypes \/ regNodes' # regNodes)]
    /\ UNCHANGED <<now, regOutputs, regLocked, updatedInputs, updatedValues>>
    /\ UNCHANGED <<burstOutputs, changedOutputs, lastCall>>
    /\ UNCHANGED <<pubPhase, pubStep, pubList, pubBurst, tickLog>>
    /\ UNCHANGED <<aliasMap, notNode>>

\* the application calls setAlias(hwID, alias): the node is marked updated iff
\* its alias changes
SetAlias(hwID, alias) ==
    /\ aliasMap' = setAlias(regNodes, aliasMap, hwID, alias)
    /\ IF aliasMap' # aliasMap
         THEN /\ burstNodes[hwID] < MaxBurst
              /\ NodeChanged(hwID)
         ELSE UNCHANGED <<updatedNodes, burstNodes, pubLate>>
    /\ lastNode' = [op |-> "setAlias", hwID |-> hwID, arg |-> alias,
                    existed |-> hwID \in DOMAIN regNodes,
                    prev |-> AliasOf(aliasMap, hwID),
                    count |-> Cardinality(DOMAIN regNodes),
                    returned |-> GetNodeByID(regNodes, aliasMap', hwID),
                    changed |-> (aliasMap' # aliasMap \/ updatedNodes' # updatedNodes)]
    /\ UNCHANGED <<now, regOutputs, regLocked, regNodes, updatedInputs, updatedValues>>
    /\ UNCHANGED <<burstOutputs, changedOutputs, lastCall>>
    /\ UNCHANGED <<pubPhase, pubStep, pubList, pubBurst, tickLog>>
    /\ UNCHANGED <<nodeTypes, notNode>>

(***************************************************************************)
(* Attributes, status and typed configuration of the registered nodes      *)
(***************************************************************************)

\* the attribute keys nodes have configuration for, and the keys of the maps
\* given to the registry: these, a key no node has and the empty key
ConfigKeys == {"name", "min"}
AttrKeys == ConfigKeys \cup {"other", ""}

\* the values of configuration and attributes
ConfigStrings == {"bob", "True", "false", "YES", "no", "1", "0", "1.23", "2"}

\* a parsed value, and no value
Parsed(v) == [ok |-> TRUE, value |-> v]
NotParsed == [ok |-> FALSE, value |-> ""]

\* strings.ToLower on the values
ToLower(v) ==
    CASE v = "True" -> "true"
      [] v = "YES" -> "yes"
      [] OTHER -> v

ParseString(v) == Parsed(v)

\* the Go parser of booleans: strconv.ParseBool, which knows no yes and no
ParseBoolGo(v) ==
    IF v \in {"1", "t", "T", "TRUE", "true", "True"} THEN Parsed(TRUE)
    ELSE IF v \in {"0", "f", "F", "FALSE", "false", "False"} THEN Parsed(FALSE)
    ELSE NotParsed

\* true/false/1/0/yes/no in any case
ParseBool(v) ==
    IF ToLower(v) \in {"true", "1", "yes"} THEN Parsed(TRUE)
    ELSE IF ToLower(v) \in {"false", "0", "no"} THEN Parsed(FALSE)
    ELSE NotParsed

\* strconv.Atoi on the values
ParseInt(v) ==
    CASE v = "0" -> Parsed(0)
      [] v = "1" -> Parsed(1)
      [] v = "2" -> Parsed(2)
      [] OTHER -> NotParsed

\* strconv.ParseFloat on the values, in hundredths
ParseFloat(v) ==
    CASE v = "0" -> Parsed(0)
      [] v = "1" -> Parsed(100)
      [] v = "2" -> Parsed(200)
      [] v = "1.23" -> Parsed(123)
      [] OTHER -> NotParsed

Parse(type, v) ==
    CASE type = "String" -> ParseString(v)
      [] type = "Bool" -> ParseBool(v)
      [] type = "Int" -> ParseInt(v)
      [] type = "Float" -> ParseFloat(v)

ConfigTypes == {"String", "Bool", "Int", "Float"}

\* the default a caller gives to the accessor of a type
Defaults(type) ==
    CASE type = "String" -> {"def"}
      [] type = "Bool" -> {FALSE}
      [] type = "Int" -> {7}
      [] type = "Float" -> {110}

\* m with the entries of n put over it
Merge(m, n) == [k \in DOMAIN m \cup DOMAIN n |-> IF k \in DOMAIN n THEN n[k] ELSE m[k]]

\* createNode: a node without attributes, status, error and configuration
NewNode == [attr |-> <<>>, status |-> <<>>, runState |-> "ready", config |-> <<>>]

\* the registry with node hwID replaced by node, marked updated if that changed it
Stored(reg, hwID, node) ==
    IF node = reg.nodes[hwID] THEN reg
    ELSE [reg EXCEPT !.nodes[hwID] = node, !.updated = @ \cup {hwID}]

\* getNodeConfigString/Bool/Int/Float(hwID, attrKey, default): the parsed current
\* value; the default with ErrNotFound on an unknown node or key and with
\* ErrTypeMismatch on a value that does not parse
getNodeConfig(reg, type, hwID, attrKey, default) ==
    IF hwID \notin DOMAIN reg.nodes \/ attrKey \notin DOMAIN reg.nodes[hwID].config
      THEN [value |-> default, err |-> "ErrNotFound"]
    ELSE IF ~Parse(type, reg.nodes[hwID].config[attrKey]).ok
      THEN [value |-> default, err |-> "ErrTypeMismatch"]
    ELSE [value |-> Parse(type, reg.nodes[hwID].config[attrKey]).value, err |-> "nil"]

\* updateNodeConfig(hwID, attrKey, newNodeConfig(...)): the descriptor of the key
\* with its default as current value
updateNodeConfig(reg, hwID, attrKey, value) ==
    IF hwID \notin DOMAIN reg.nodes THEN reg
    ELSE Stored(reg, hwID,
                [reg.nodes[hwID] EXCEPT !.config = MapPut(@, attrKey, value)])

\* updateNodeConfigValues that takes every key of the map for a descriptor
updateNodeConfigValuesAll(reg, hwID, params) ==
    IF hwID \notin DOMAIN reg.nodes THEN reg
    ELSE Stored(reg, hwID,
                [reg.nodes[hwID] EXCEPT !.config = Merge(@, params),
                                        !.attr = Merge(@, params)])

\* updateNodeConfigValues(hwID, map): the keys that have a descriptor get the
\* value of the map as current value and as attribute
updateNodeConfigValues(reg, hwID, params) ==
    IF hwID \notin DOMAIN reg.nodes THEN reg
    ELSE LET node == reg.nodes[hwID]
             applied == {k \in DOMAIN params \cap DOMAIN node.config :
                            k # "" /\ node.config[k] # params[k]}
             values == [k \in applied |-> params[k]]
         IN Stored(reg, hwID,
                   [node EXCEPT !.config = Merge(@, values), !.attr = Merge(@, values)])

\* ... and what it returns: whether a current value changed
ConfigValuesChanged(reg, after) ==
    \E h \in DOMAIN reg.nodes : after.nodes[h].config # reg.nodes[h].config

\* updateNodeAttr(hwID, attrMap)
updateNodeAttr(reg, hwID, attrMap) ==
    IF hwID \notin DOMAIN reg.nodes THEN reg
    ELSE Stored(reg, hwID, [reg.nodes[hwID] EXCEPT !.attr = Merge(@, attrMap)])

\* updateNodeStatus(hwID, statusMap)
updateNodeStatus(reg, hwID, statusMap) ==
    IF hwID \notin DOMAIN reg.nodes THEN reg
    ELSE Stored(reg, hwID, [reg.nodes[hwID] EXCEPT !.status = Merge(@, statusMap)])

\* updateErrorStatus that registers the node it has an error for
updateErrorStatusOfAny(reg, hwID, runState, message) ==
    [reg EXCEPT !.nodes = MapPut(@, hwID, [NewNode EXCEPT !.runState = runState,
                                                          !.status = [lastError |-> message]]),
                !.updated = @ \cup {hwID}]

\* updateErrorStatus(hwID, runState, message): the status map and the runState field
updateErrorStatus(reg, hwID, runState, message) ==
    IF hwID \notin DOMAIN reg.nodes THEN reg
    ELSE Stored(reg, hwID, [reg.nodes[hwID] EXCEPT !.runState = runState,
                                                   !.status = Merge(@, [lastError |-> message])])

\* setAlias(hwID, alias) on the registry
setNodeAlias(reg, hwID, alias) ==
    LET aliases == setAlias(reg.nodes, reg.aliases, hwID, alias)
    IN IF aliases = reg.aliases THEN reg
       ELSE [reg EXCEPT !.aliases = aliases, !.updated = @ \cup {hwID}]

\* getNodeAttr(hwID, attrKey)
getNodeAttr(reg, hwID, attrKey) ==
    IF hwID \in DOMAIN reg.nodes /\ attrKey \in DOMAIN reg.nodes[hwID].attr
      THEN reg.nodes[hwID].attr[attrKey]
      ELSE ""

\* newRegisteredNodes and createNode("node1", "unknown")
TypedStart ==
    /\ registered = [nodes |-> [h \in {"node1"} |-> NewNode], aliases |-> <<>>,
                     updated |-> {"node1"}]
    /\ lastTyped = [op |-> "none"]

\* the hwIDs given to the registry: that of the node and one of no node
TypedHWIDs == {"node1", "notanode"}

\* a mutator was called for hwID with arg, took the registry to reg and returned
Mutated(op, hwID, arg, reg, returned) ==
    /\ registered' = reg
    /\ lastTyped' = [op |-> op, hwID |-> hwID, arg |-> arg, before |-> registered,
                     returned |-> returned]
    /\ UNCHANGED notTyped

\* the application registers the configuration of a key that has none yet
UpdateNodeConfig(hwID, attrKey, value) ==
    /\ hwID \in DOMAIN registered.nodes => attrKey \notin DOMAIN registered.nodes[hwID].config
    /\ Mutated("updateNodeConfig", hwID, [key |-> attrKey, value |-> value],
               updateNodeConfig(registered, hwID, attrKey, value), "")

\* the application reads the configuration of a key as a value of a type
GetNodeConfig(type, hwID, attrKey, default) ==
    /\ lastTyped' = [op |-> "getNodeConfig", type |-> type, hwID |-> hwID,
                     found |-> /\ hwID \in DOMAIN registered.nodes
                               /\ attrKey \in DOMAIN registered.nodes[hwID].config,
                     current |-> IF /\ hwID \in DOMAIN registered.nodes
                                    /\ attrKey \in DOMAIN registered.nodes[hwID].config
                                   THEN registered.nodes[hwID].config[attrKey] ELSE "",
                     default |-> default,
                     returned |-> getNodeConfig(registered, type, hwID, attrKey, default)]
    /\ UNCHANGED <<registered, notTyped>>

\* the maps given to updateNodeConfigValues
ConfigMaps ==
    {[k \in {key} |-> "2"] : key \in AttrKeys} \cup
    {[k \in {"name", "other", ""} |-> "bob"]}

UpdateTypedConfigValues(hwID, params) ==
    LET after == updateNodeConfigValues(registered, hwID, params)
    IN Mutated("updateNodeConfigValues", hwID, params, after,
               ConfigValuesChanged(registered, after))

UpdateTypedAttr(hwID, attrMap) ==
    Mutated("updateNodeAttr", hwID, attrMap, updateNodeAttr(registered, hwID, attrMap), "")

UpdateNodeStatus(hwID, statusMap) ==
    Mutated("updateNodeStatus", hwID, statusMap,
            updateNodeStatus(registered, hwID, statusMap), "")

UpdateErrorStatus(hwID, runState, message) ==
    Mutated("updateErrorStatus", hwID, [runState |-> runState, message |-> message],
            updateErrorStatus(registered, hwID, runState, message), "")

SetTypedAlias(hwID, alias) ==
    Mutated("setAlias", hwID, alias, setNodeAlias(registered, hwID, alias), "")

GetNodeAttr(hwID, attrKey) ==
    Mutated("getNodeAttr", hwID, attrKey, registered, getNodeAttr(registered, hwID, attrKey))

(***************************************************************************)
(* Specifications                                                          *)
(***************************************************************************)

LifeParked == LifeStart /\ hasMessenger
TrustParked == TrustStart /\ signingMethod = SigningMethodJWS /\ selfID = publisherID

\* a publisher without discovery handler and without poll handler
BeatParked ==
    /\ BeatStart
    /\ ~discoveryHandler
    /\ ~pollHandler
    /\ discoveryInterval = MaxInterval
    /\ pollInterval = MaxInterval

\* the parts added to the first four, left alone
MoreParked ==
    /\ BeatParked
    /\ ConfigStart /\ onNodeConfigHandler = "none"
    /\ FormStart /\ NodeStart /\ SnapStart /\ TypedStart

\* the publisher's Start and Stop, called from NTasks tasks, and its heartbeats
LifeInit == LifeStart /\ RegStart /\ SeenStart /\ PubStart /\ TrustParked /\ MoreParked

Spec == LifeInit /\ [][Next]_vars

SpecFair ==
    /\ Spec
    /\ \A t \in Tasks : WF_vars(TaskStep(t))
    /\ \A h \in Heartbeats : WF_vars(HeartbeatStep(h))
    /\ \A t \in Tasks : \A h \in Heartbeats : WF_vars(ExitChannel(t, h))

\* the registries under the calls of an application
RegInit == LifeParked /\ RegStart /\ SeenStart /\ PubStart /\ TrustParked /\ MoreParked

RegNodes == {"node1"}

RegAttrValues == {"Bob"}

RegCandidates ==
    {regOutputs.outputsByID[id] : id \in DOMAIN regOutputs.outputsByID} \cup
    {NewOutput(domain, publisherID, "node1", t, i, now) : t \in OutputTypes, i \in Instances}

NextReg ==
    \/ Tick
    \/ \E t \in OutputTypes : \E i \in Instances : CreateOutput("node1", t, i)
    \/ \E output \in RegCandidates : UpdateOutput(output)
    \/ \E n \in RegNodes : \E a \in Aliases : SetNodeID(n, a)
    \/ \E c \in BOOLEAN : CallGetUpdatedOutputs(c)
    \/ \E n \in RegNodes : CreateNode(n)
    \/ \E n \in RegNodes : \E v \in RegAttrValues : UpdateNodeAttr(n, v)
    \/ \E c \in BOOLEAN : CallGetUpdatedNodes(c)

SpecReg == RegInit /\ [][NextReg]_vars

\* the output registry under an application that keeps the lists it gets and that
\* also passes outputs made for another domain and publisher to UpdateOutput
OutInit == RegInit

OtherOutputs ==
    {NewOutput("other", "publisher2", "node1", t, "0", now) : t \in OutputTypes}

NextOut ==
    \/ Tick
    \/ \E t \in OutputTypes : \E i \in Instances : CreateOutput("node1", t, i)
    \/ \E output \in RegCandidates \cup OtherOutputs : UpdateOutput(output)
    \/ \E n \in RegNodes : \E a \in Aliases : SetNodeID(n, a)
    \/ CallGetAllOutputs
    \/ \E n \in NodeHWIDs : CallGetOutputsByNodeHWID(n)
    \/ \E c \in BOOLEAN : KeepGetUpdatedOutputs(c)

SpecOut == OutInit /\ [][NextOut]_vars

\* the output registry of an application whose hardware IDs and instances are
\* strings with and without dots
IDInit == RegInit

DottedHWIDs == {"node1", "node1.switch.0", "node2"}
DottedInstances == {"1", "0.switch.1"}

NextID ==
    \/ Tick
    \/ \E h \in DottedHWIDs : \E t \in OutputTypes : \E i \in DottedInstances :
          CreateOutputOf(h, t, i)

SpecID == IDInit /\ [][NextID]_vars

\* PublishUpdates of the heartbeat while the application changes the registries
PubInit == LifeParked /\ RegStart /\ SeenStart /\ PubStart /\ TrustParked /\ MoreParked

\* the attribute values the application gives to the nodes
PubAttrs == {<<"node1", "Bob">>, <<"node1", "NewName">>, <<"node2", "Bob">>}

NextPub ==
    \/ \E n \in NodeHWIDs : CreateNode(n)
    \/ \E a \in PubAttrs : UpdateNodeAttr(a[1], a[2])
    \/ \E t \in OutputTypes : CreateOutput("node1", t, "0")
    \/ \E i \in InputIDs : UpdateInput(i)
    \/ \E t \in OutputTypes : UpdateOutputValue(MakeOutputID("node1", t, "0"))
    \/ PubGet
    \/ PubPublish

SpecPub == PubInit /\ [][NextPub]_vars

\* PublishUpdates over a transport that can fail
LossInit == PubInit

NextLoss ==
    \/ \E n \in NodeHWIDs : CreateNode(n)
    \/ \E t \in OutputTypes : CreateOutput("node1", t, "0")
    \/ \E i \in InputIDs : UpdateInput(i)
    \/ \E t \in OutputTypes : UpdateOutputValue(MakeOutputID("node1", t, "0"))
    \/ PubGet
    \/ PubPublish
    \/ PubPublishFailing

SpecLoss == LossInit /\ [][NextLoss]_vars

\* the deliveries on the identity addresses of the domain
TrustInit == LifeParked /\ RegStart /\ SeenStart /\ PubStart /\ TrustStart /\ MoreParked

\* what is published on the address of the DSS names that address
NextTrust == \E address \in Addresses : \E message \in Messages :
                 /\ address = dssAddress => message.msg.Address = dssAddress
                 /\ HandlePublisherDiscovery(address, message)

SpecTrust == TrustInit /\ [][NextTrust]_vars

\* the heartbeat of a publisher with or without a messenger and handlers,
\* started and stopped by one task
BeatInit ==
    /\ LifeStart /\ RegStart /\ SeenStart /\ PubStart /\ TrustParked
    /\ BeatStart
    /\ ConfigStart /\ onNodeConfigHandler = "none"
    /\ FormStart
    /\ NodeStart
    /\ SnapStart
    /\ TypedStart

NextBeat ==
    \/ StartCall(1)
    \/ StopCall(1)
    \/ TaskStep(1)
    \/ \E h \in Heartbeats : ExitChannel(1, h)
    \/ \E h \in Heartbeats : BeatStep(h)
    \/ \E h \in Heartbeats : PollReturn(h)
    \/ DiscoveryReturn
    \/ \E k \in Kinds : Mutate(k)

SpecBeat == BeatInit /\ [][NextBeat]_vars

\* the configuration commands a publisher receives, with or without a handler
ConfigInit ==
    /\ LifeParked /\ RegStart /\ SeenStart /\ PubStart /\ BeatParked
    /\ TrustStart /\ selfID = publisherID
    /\ ConfigStart
    /\ FormStart
    /\ NodeStart
    /\ SnapStart
    /\ TypedStart

NextConfig ==
    \/ \E n \in RegNodes : CreateNode(n)
    \/ CallGetUpdatedNodes(TRUE)
    \/ \E n \in NodeHWIDs : \E message \in ConfigureMessages :
          HandleNodeConfigCommand(NodeConfigureAddress(n), message)

SpecConfig == ConfigInit /\ [][NextConfig]_vars

\* the publication of the values of the outputs of a node under its configuration
FormInit == LifeParked /\ RegStart /\ SeenStart /\ PubStart /\ TrustParked /\ MoreParked

NextForm ==
    \/ \E n \in RegNodes : CreateNode(n)
    \/ CallGetUpdatedNodes(TRUE)
    \/ \E n \in RegNodes : \E f \in Forms : \E v \in {"true", "false"} :
          UpdateNodeConfigValues(n, f, v)
    \/ \E n \in RegNodes : PublishUpdatedOutputValues(n)

SpecForm == FormInit /\ [][NextForm]_vars

\* the node registry under createNode and setAlias calls of an application
NodeInit == LifeParked /\ RegStart /\ SeenStart /\ PubStart /\ TrustParked /\ MoreParked

NextNode ==
    \/ \E n \in NodeHWIDs : \E t \in NodeTypes : CreateNodeOfType(n, t)
    \/ \E n \in NodeHWIDs \cup Aliases : \E a \in AliasIDs : SetAlias(n, a)
    \/ CallGetUpdatedNodes(TRUE)

SpecNode == NodeInit /\ [][NextNode]_vars

\* the node registry under the calls of an application that configures node1 and
\* also names a node that does not exist
TypedInit == RegInit

NextTyped ==
    \E hwID \in TypedHWIDs :
        \/ \E v \in ConfigStrings : UpdateNodeConfig(hwID, "name", v)
        \/ \E v \in {"1.23", "2"} : UpdateNodeConfig(hwID, "min", v)
        \/ \E type \in ConfigTypes : \E k \in AttrKeys \ {""} : \E d \in Defaults(type) :
              GetNodeConfig(type, hwID, k, d)
        \/ \E params \in ConfigMaps : UpdateTypedConfigValues(hwID, params)
        \/ UpdateTypedAttr(hwID, [name |-> "Bob"])
        \/ UpdateNodeStatus(hwID, [LastUpdated |-> "now"])
        \/ UpdateErrorStatus(hwID, "error", "This is an error")
        \/ \E a \in Aliases : SetTypedAlias(hwID, a)
        \/ GetNodeAttr(hwID, "name")

SpecTyped == TypedInit /\ [][NextTyped]_vars

(***************************************************************************)
(* Properties                                                              *)
(***************************************************************************)

\* C1: when a Stop() that found the publisher running returns, no heartbeat loop
\* is left that can tick: every heartbeat has left its loop.
StopIsSynchronous ==
    \A t \in Tasks : pc[t] = "stop_return" => InLoop = {}

\* C2: at most one heartbeatLoop task is alive at any time.
SingleHeartbeat == Cardinality(Alive) <= 1

ClassRank(class) ==
    CASE class = "node" -> 1
      [] class = "input" -> 2
      [] class = "output" -> 3
      [] class = "value" -> 4

\* C3: within one tick the publications come in the order nodes, inputs, outputs,
\* output values: no publication of a class follows one of a later class.
TickOrder ==
    \A i, j \in DOMAIN tickLog :
        i < j => ClassRank(tickLog[i][1]) <= ClassRank(tickLog[j][1])

\* a finished tick that published something of each of the four classes
TickOrderWitness ==
    /\ pubPhase = 1 /\ pubStep = "get"
    /\ \A class \in Kinds : \E i \in DOMAIN tickLog : tickLog[i][1] = class

\* C4: a change made while the publisher runs is published by a later tick, unless
\* the publisher is stopped first.
AtLeastOnce ==
    \A k \in Kinds : (isRunning /\ k \in dirty) ~> (k \notin dirty \/ ~isRunning)

\* the $node publications of node n in the log of the tick
NodePublications(n) ==
    SelectSeq(tickLog, LAMBDA e : e[1] = "node" /\ e[2] = n)

\* C5: once a tick has published its nodes, its log holds one $node publication for
\* each node that changed since the tick before, however often it changed, and none
\* for the other nodes; the publication carries the state the node had when the tick
\* collected it, unless the node changed again while the tick held the list.
Coalescing ==
    ~NodesInHand =>
        \A n \in NodeHWIDs :
            /\ Len(NodePublications(n)) = IF pubBurst.burst[n] > 0 THEN 1 ELSE 0
            /\ (pubBurst.burst[n] > 0 /\ n \notin pubLate) =>
                   NodePublications(n)[1][3] = pubBurst.nodes[n]

\* a node that changed twice between two ticks and was published once, with its last state
CoalescingWitness ==
    /\ ~NodesInHand
    /\ \E n \in NodeHWIDs :
          /\ pubBurst.burst[n] >= 2
          /\ n \notin pubLate
          /\ Len(NodePublications(n)) = 1
          /\ NodePublications(n)[1][3] = pubBurst.nodes[n]
          /\ pubBurst.nodes[n] # ""

\* the set of the elements of the list l
Elements(l) == {l[i] : i \in DOMAIN l}

\* no element is twice in the list l
NoDuplicates(l) == \A i, j \in DOMAIN l : l[i] = l[j] => i = j

NoDSSPolicy ==
    (/\ lastOutcome.on \notin {"none", dssAddress}
     /\ ~lastOutcome.dssKnown
     /\ lastOutcome.forged) => ~lastOutcome.changed

\* C8: once an identity message has been received on the identity address of the DSS,
\* the directory holds the DSS identity, and a later message of another publisher
\* without a valid DSS signature leaves the directory unchanged.
DSSGating ==
    dssReceived =>
        /\ dssAddress \in DOMAIN domainPublishers
        /\ (lastOutcome.on # dssAddress /\ ~lastOutcome.dssSigned) => ~lastOutcome.changed

\* C9: while the directory holds a DSS signing key, an identity that arrives on the
\* address of another publisher is stored if its identitySignature is a valid DSS
\* signature of its identity, and leaves the directory unchanged if it is not.
DSSPolicy ==
    (/\ lastOutcome.on \notin {"none", dssAddress}
     /\ lastOutcome.decoded
     /\ lastOutcome.dssKnown) =>
        IF lastOutcome.dssSigned THEN lastOutcome.applied ELSE ~lastOutcome.changed

\* an identity with a valid DSS signature changed the directory
DSSPolicyWitness ==
    /\ lastOutcome.on \notin {"none", dssAddress}
    /\ lastOutcome.decoded
    /\ lastOutcome.dssKnown
    /\ lastOutcome.dssSigned
    /\ lastOutcome.applied
    /\ lastOutcome.changed

\* C10: a message received on the publisher's own identity address does not change
\* the entry of the publisher itself.
SelfDiscoveryIgnored ==
    lastOutcome.on = IdentityAddress(domain, selfID) => ~lastOutcome.selfChanged

\* C14: a publisher without a messenger never starts: whatever Start() calls are
\* made, the running flag stays false, no heartbeat goroutine exists, nothing is
\* subscribed and nothing is published
StartWithoutMessenger ==
    ~hasMessenger =>
        /\ isRunning = FALSE
        /\ \A h \in Heartbeats : hb[h] = "none"
        /\ subscriptions = {}
        /\ published = FALSE

\* Start() has met the missing messenger and is about to return
StartWithoutMessengerWitness ==
    /\ ~hasMessenger
    /\ \E t \in Tasks : pc[t] = "start_error"

\* C15: when a Start() that started the publisher returns, the four address
\* patterns are subscribed: configure, input set, identity and alias
FourSubscriptions ==
    \A t \in Tasks :
        pc[t] = "start_return" =>
            {ConfigureAddress("test", "publisher1"), InputSetAddress("test", "publisher1"),
             IdentityPattern("test"), AliasPattern("test")} \subseteq subscriptions

\* C16: when Stop() returns, none of the subscriptions of Start() remains
StopUnsubscribes ==
    \A t \in Tasks :
        pc[t] = "stop_return" => subscriptions \cap StartSubscribesTo = {}

BadlySigned ==
    LET v == VerifySender(lastConfig.message, domainPublishers)
    IN ~v.isSigned \/ v.err

\* C11: when signing is required, a $configure message that is unsigned, from an
\* unknown signer or fails the verification is dropped: the handler is not
\* invoked, and no node and no updated mark changes
ConfigDropped ==
    (lastConfig.on # "none" /\ signingMethod = SigningMethodJWS /\ BadlySigned) =>
        (~lastConfig.invoked /\ ~lastConfig.changed)

\* a badly signed message for a registered node, with a handler set that would
\* have changed the node, was dropped
ConfigDroppedWitness ==
    /\ lastConfig.on # "none"
    /\ signingMethod = SigningMethodJWS
    /\ BadlySigned
    /\ lastConfig.message.signedBy # "none"
    /\ onNodeConfigHandler = "echo"
    /\ \E n \in DOMAIN regNodes :
          /\ lastConfig.on = NodeConfigureAddress(n)
          /\ regNodes[n] # lastConfig.message.Attr

\* C12: after a correctly signed $configure for a registered node, the node has
\* the value of the map the handler returned (of the message's own map without a
\* handler; the value sent, under an echo handler), and nothing changed if the
\* handler returned nil
ConfigFilter ==
    (lastConfig.on # "none" /\ ~BadlySigned /\ lastConfig.node # "nil") =>
        LET sent == lastConfig.message.Attr
            got == regNodes[lastConfig.node]
        IN /\ lastConfig.invoked = (onNodeConfigHandler # "none")
           /\ onNodeConfigHandler \in {"none", "echo"} => got = sent
           /\ onNodeConfigHandler = "deny" => ~lastConfig.changed
           /\ onNodeConfigHandler = "rename" => got = "NewName"

\* an echo handler passed on a value the node did not have, and the node has it now
ConfigFilterWitness ==
    /\ lastConfig.on # "none"
    /\ ~BadlySigned
    /\ lastConfig.node # "nil"
    /\ onNodeConfigHandler = "echo"
    /\ lastConfig.changed
    /\ regNodes[lastConfig.node] = lastConfig.message.Attr

\* C17: an updated output value of a registered node is published in a form iff
\* the node's configuration key of the form is true, or is not set and the form
\* is raw, latest or history
FormsGated ==
    (valueLog.on # "none" /\ valueLog.registered) =>
        \A f \in Forms :
            f \in valueLog.forms <=>
                \/ valueLog.config[f] = "true"
                \/ valueLog.config[f] = "unset" /\ FormDefault(f)

\* C18: createNode(h, t') of a node that exists returns that node, leaves its
\* nodeType as the first createNode set it, and leaves the number of nodes as it was
IdempotentCreate ==
    (lastNode.op = "createNode" /\ lastNode.existed) =>
        /\ lastNode.returned = lastNode.hwID
        /\ nodeTypes[lastNode.hwID] = lastNode.prev
        /\ Cardinality(DOMAIN regNodes) = lastNode.count
        /\ ~lastNode.changed

\* a second createNode of a node, with another nodeType than the first
IdempotentCreateWitness ==
    /\ lastNode.op = "createNode"
    /\ lastNode.existed
    /\ lastNode.arg # lastNode.prev

NoneBlockedForever ==
    /\ \A t \in Tasks :
          (pc[t] \in {"start_wait", "stop_wait"}) ~> (pc[t] \notin {"start_wait", "stop_wait"})
    /\ \A h \in Heartbeats :
          (hb[h] \in {"hello", "bye"}) ~> (hb[h] \notin {"hello", "bye"})

\* C30: the heartbeat is launched only after Start() has published the identity
\* and the current discovery: while nothing is published no heartbeat goroutine
\* exists
LaunchAfterPublish ==
    (\E h \in Heartbeats : hb[h] # "none") => published

\* C23: SetNodeID returns for a node with any number of outputs and leaves the
\* mutex of the registry free: the mutex is never held by a call that does not return
SetNodeIDReturns == regLocked = FALSE

\* C24: no delivery of an identity message removes an address from the directory,
\* and a delivery that changes the directory puts one identity message under its
\* own address, in the place of the entry of that address if there was one, and
\* leaves the other entries as they were
NeverEvicts ==
    [][/\ \A a \in DOMAIN domainPublishers : a \in DOMAIN domainPublishers'
       /\ domainPublishers' # domainPublishers =>
             \E a \in DOMAIN domainPublishers' :
                 /\ domainPublishers'[a].Address = a
                 /\ domainPublishers' = MapPut(domainPublishers, a, domainPublishers'[a])]_vars

\* an accepted identity message replaced the entry its address had, with other
\* entries in the directory
NeverEvictsWitness ==
    /\ lastOutcome.on # "none"
    /\ lastOutcome.applied
    /\ lastOutcome.selfChanged
    /\ Cardinality(DOMAIN domainPublishers) > 1

\* C25: the address of every registered output is an output address of the domain
\* and the publisher of the registry, for some node ID, output type and instance
AddressOfRegistry ==
    \A id \in DOMAIN regOutputs.outputsByID :
        \E n \in NodeHWIDs \cup Aliases : \E t \in OutputTypes : \E i \in Instances :
            regOutputs.outputsByID[id].Address =
                MakeOutputDiscoveryAddress(domain, publisherID, n, t, i)

\* C26: the elements of a list a getter returned read as they did when the getter
\* returned, whatever the registry did since
SnapshotIndependent == snapshot.seen = snapshot.taken

\* C29: a registered discovery handler is called in the first round of the
\* heartbeat loop and from then on in every discoveryInterval-th round, no more and
\* no less; a registered poll handler is called in the second round, after the
\* first call of discovery, and from then on in every pollInterval-th round
HandlerPeriods ==
    /\ discoveryHandler =>
          /\ beatLog.ticks >= 1 => beatLog.discAge # Never
          /\ beatLog.discAge < discoveryInterval
          /\ beatLog.discGap \in {Never, discoveryInterval}
    /\ pollHandler =>
          /\ beatLog.ticks = 1 => beatLog.pollAge = Never
          /\ beatLog.ticks = 2 => beatLog.pollAge # Never
          /\ beatLog.pollAge < pollInterval
          /\ beatLog.pollGap \in {Never, pollInterval}

\* both handlers were called a second time, discoveryInterval and pollInterval
\* rounds after their calls before, with intervals that differ
HandlerPeriodsWitness ==
    /\ discoveryHandler /\ pollHandler
    /\ discoveryInterval # pollInterval
    /\ beatLog.discGap = discoveryInterval
    /\ beatLog.pollGap = pollInterval

\* the values that are a value of the type, and the value they are
Accepted(type) ==
    CASE type = "String" -> ConfigStrings
      [] type = "Bool" -> {"True", "false", "YES", "no", "1", "0"}
      [] type = "Int" -> {"0", "1", "2"}
      [] type = "Float" -> {"0", "1", "2", "1.23"}

Meaning(type, v) ==
    CASE type = "String" -> v
      [] type = "Bool" -> v \in {"True", "YES", "1"}
      [] type = "Int" -> ("0" :> 0 @@ "1" :> 1 @@ "2" :> 2)[v]
      [] type = "Float" -> ("0" :> 0 @@ "1" :> 100 @@ "2" :> 200 @@ "1.23" :> 123)[v]

\* C21: a typed accessor returns the default with ErrNotFound for an unknown node
\* or key, the value with no error when the current value is one of the type, and
\* the default with ErrTypeMismatch when it is not; the booleans are
\* true/false/1/0/yes/no in any case
TypedAccess ==
    lastTyped.op = "getNodeConfig" =>
        LET r == lastTyped.returned
        IN /\ ~lastTyped.found => r = [value |-> lastTyped.default, err |-> "ErrNotFound"]
           /\ lastTyped.found /\ lastTyped.current \in Accepted(lastTyped.type) =>
                 r = [value |-> Meaning(lastTyped.type, lastTyped.current), err |-> "nil"]
           /\ lastTyped.found /\ lastTyped.current \notin Accepted(lastTyped.type) =>
                 r = [value |-> lastTyped.default, err |-> "ErrTypeMismatch"]

\* the accessor of booleans read YES as true
TypedAccessWitness ==
    /\ lastTyped.op = "getNodeConfig"
    /\ lastTyped.type = "Bool"
    /\ lastTyped.found
    /\ lastTyped.current = "YES"
    /\ lastTyped.returned = [value |-> TRUE, err |-> "nil"]

Mutators ==
    {"updateNodeAttr", "updateNodeStatus", "updateErrorStatus",
     "updateNodeConfigValues", "setAlias"}

\* C27: a mutator called with the hwID of no node leaves the nodes, their fields,
\* the aliases and the updated set as they were, and getNodeAttr of no node is ""
UnknownIsNoOp ==
    /\ lastTyped.op \in Mutators /\ lastTyped.hwID \notin DOMAIN lastTyped.before.nodes =>
          registered = lastTyped.before
    /\ lastTyped.op = "getNodeAttr" /\ lastTyped.hwID \notin DOMAIN lastTyped.before.nodes =>
          lastTyped.returned = ""

\* updateErrorStatus was called for no node, in a registry with a node that has
\* an error
UnknownIsNoOpWitness ==
    /\ lastTyped.op = "updateErrorStatus"
    /\ lastTyped.hwID = "notanode"
    /\ registered.nodes["node1"].runState = "error"

\* C31: under the signing method jws a message that is no JWS leaves the directory
\* as it is and the handler returns; under another signing method such a message
\* is taken for the payload, and one that is an identity message on the address
\* of a publisher other than the DSS is stored iff the directory holds no DSS key
\* or the identity has a valid DSS signature
UnsignedDiscarded ==
    (lastOutcome.on # "none" /\ ~lastOutcome.signed) =>
        IF signingMethod = SigningMethodJWS
          THEN ~lastOutcome.decoded /\ ~lastOutcome.changed /\ ~crashed
          ELSE (lastOutcome.decoded /\ lastOutcome.on # dssAddress) =>
                  IF ~lastOutcome.dssKnown \/ lastOutcome.dssSigned
                    THEN lastOutcome.applied
                    ELSE ~lastOutcome.changed

\* under jws a message that is no JWS but carries an identity that would have
\* been stored was discarded
UnsignedDiscardedWitness ==
    /\ lastOutcome.on \notin {"none", dssAddress}
    /\ ~lastOutcome.signed
    /\ signingMethod = SigningMethodJWS
    /\ ~lastOutcome.dssKnown
    /\ ~lastOutcome.applied
    /\ ~lastOutcome.changed

\* C35: the entry of an address is created or replaced only by a message that was
\* received on that address
EntryByOwnAddress ==
    [][\A a \in DOMAIN domainPublishers' :
          (a \notin DOMAIN domainPublishers \/ domainPublishers'[a] # domainPublishers[a])
              => lastOutcome'.on = a]_vars

\* C32: a $configure message on an address that names no registered node is
\* dropped: the handler is not invoked, and no node and no updated mark changes
UnknownNodeDropped ==
    (lastConfig.on # "none" /\ lastConfig.node = "nil") =>
        (~lastConfig.invoked /\ ~lastConfig.changed)

\* a correctly signed message for a node that is not registered was dropped by a
\* publisher that has a handler and a registered node
UnknownNodeDroppedWitness ==
    /\ lastConfig.on # "none"
    /\ lastConfig.node = "nil"
    /\ ~BadlySigned
    /\ onNodeConfigHandler = "echo"
    /\ DOMAIN regNodes # {}

\* C33: GetOutputByAddress(a) returns only an output whose address is a, and
\* returns every registered output for the address the output has
AddressLookup ==
    /\ \A a \in DOMAIN regOutputs.addressMap :
          \A o \in GetOutputByAddress(regOutputs, a) : o.Address = a
    /\ \A id \in DOMAIN regOutputs.outputsByID :
          GetOutputByAddress(regOutputs, regOutputs.outputsByID[id].Address) =
              {regOutputs.outputsByID[id]}

\* C36: GetOutputByNodeHWID(hwID, type, instance) returns only an output of that
\* hwID, type and instance: no CreateOutput of other three has put its output
\* there
TripleIdentifies ==
    \A h \in DottedHWIDs : \A t \in OutputTypes : \A i \in DottedInstances :
        \A o \in GetOutputByNodeHWID(regOutputs, h, t, i) :
            o.NodeHWID = h /\ o.OutputType = t /\ o.Instance = i

\* C34: a GetUpdated* call of PublishUpdates empties the dirty set of its class
\* before anything of the list is published, and the Publish* call that follows,
\* whether the transport fails or not, marks nothing updated and is followed by
\* the next statement of PublishUpdates: what the transport failed for is in no
\* dirty set, and so in no later list, until it is modified again
NeverRemarked ==
    [][/\ (pubStep = "get" /\ pubStep' = "publish") =>
             /\ Dirty'[pubPhase] = IF PublishOrder[pubPhase] = "output" THEN <<>> ELSE {}
             /\ tickLog' = IF pubPhase = 1 THEN <<>> ELSE tickLog
       /\ (pubStep = "publish" /\ pubStep' = "get") =>
             /\ Dirty' = Dirty
             /\ pubPhase' = (pubPhase % Len(PublishOrder)) + 1]_vars

\* the transport failed for every updated node of the tick, and PublishUpdates
\* went on to the inputs with no node marked updated
NeverRemarkedWitness ==
    /\ pubPhase = 2
    /\ pubStep = "get"
    /\ AtLeast(pubBurst.burst, 1) # {}
    /\ tickLog = <<>>
    /\ updatedNodes = {}
====
